---- MODULE Spec2Model ----
(***************************************************************************)
(* A model of the chat-turn orchestration (ChatService.chat, the MCP       *)
(* plugin manager, the function-call side channel, thread storage) and of  *)
(* the OpenAPI spec cache (OpenAPISpecCache) of ai-agent-experience.       *)
(*                                                                         *)
(* Two specifications share the module:                                    *)
(*   SpecChat   turns of one ChatService object, one turn at a time        *)
(*   SpecCache  the process-wide spec cache with its background tasks      *)
(***************************************************************************)
EXTENDS Integers, Sequences, FiniteSets, TLC

\* ------------------------------------------------------------------ bounds
MaxTurns == 2
MaxPlugins == 2
MaxCalls == 1
MaxContent == 2
MaxTime == 4
MaxVersion == 2
MaxPending == 1
MaxHist == 1
MaxInvocations == 2
MaxTools == 3
MaxWait == 31
MaxCloses == 2
MaxEvents == 4
MaxRetriesArg == 3
MaxBackoffArg == 2

Null == "None"
\* a thread that is None, a session with nothing stored, a plugin-manager
\* reference that is None or not set (the code treats the two alike: lines 84
\* and 347 of chat_service.py), are all the empty sequence; a plugin-manager
\* reference to manager m is <<m>>
NoThread == <<>>
NoManager == <<>>
\* function_call_queues without an entry for the session
NoQueue == [has |-> FALSE, q |-> <<>>]
EmptyQueue == [has |-> TRUE, q |-> <<>>]

Sessions == {"s1"}
AgentTypes == {"ChatCompletionAgent", "AzureAIAgent", "Other"}
Backends == {"memory", "redis", "cosmosdb"}
Functions == {"f"}

\* spec URLs of OpenAPI tools and the authentications declared with them
Urls == {"u1", "u2"}
Auths == {"header"}
\* what a fetch can do: the transport fails, the server answers with an error
\* status, the body parses neither as JSON nor as YAML, the body parses to an
\* empty (falsy) document, or the body parses to version v of the spec
FetchOutcomes ==
    [kind : {"transport", "http", "parse"}, v : {0}]
        \cup [kind : {"ok"}, v : 0..MaxVersion]

\* the failure kinds are alike to every caller (each is re-raised as a plain
\* Exception, lines 279-292): the bulk operations draw one of them
BulkOutcomes == {o \in FetchOutcomes : o.kind \in {"ok", "transport"}}

\* what _register_openapi_tool meets for a tool: the fetch of its spec fails,
\* the tool declares no specUrl, the fetched spec does not register
\* (add_plugin_from_openapi raises), or the tool is registered
ToolOutcomes ==
    [kind : {"transport", "no_spec_url", "unregistrable", "ok"}, v : {1}]

\* the content chunks the generation stream emits, in order: "a", "b", ...
ContentText == <<"a", "b", "c", "d", "e", "f">>

VARIABLES
    \* ---- ChatService / turn state
    pc,                    \* position of the running turn in ChatService.chat
    turnNo,                \* number of the turn (identity of its MCPPluginManager)
    sid,                   \* session_id of the turn
    agentType,             \* agent.agentType
    display,               \* agent.displayFunctionCallStatus
    mcpTools,              \* number of MCP servers in the turn's mcp_config
    backend,               \* settings.thread_storage_type
    storage,               \* thread_storage: session id -> stored thread state
    existing_thread,       \* chat(): existing_thread
    thread,                \* chat(): thread (its chat history, or None)
    threadIsStored,        \* thread is the very object held by the memory storage
    function_call_queues,  \* kernel_factory.function_call_queues
    inCall,                \* tool invocation in progress inside the filter
    calls,                 \* tool invocations started in this turn
    emitted,               \* content chunks the generation stream has produced
    out,                   \* chunks yielded to the caller of chat()
    self_plugin_manager,   \* ChatService._plugin_manager
    plugin_manager,        \* chat(): local plugin_manager
    pm_plugins,            \* MCPPluginManager.plugins, per manager
    init_failed,           \* <<the MCP servers whose initialization failed>>, <<>> when none ran
    close_raised,          \* a close() invoked in this turn has raised
    kernel_fetches,        \* spec URLs create_kernel has just fetched over the network
    kernel_unusable,       \* tools create_kernel has just found without a usable spec
    \* ---- history variables (observers, never read by the program)
    committed,             \* state saved by the last successfully completed turn
    recorded,              \* function-call events recorded in this turn, in order
    created,               \* plugin instances whose creation succeeded in this turn
    closeCalls,            \* number of close() invocations per plugin instance
    outcome                \* how the turn ended

VARIABLES
    \* ---- OpenAPISpecCache
    enable_cache,          \* self._enable_cache
    cache_ttl,             \* self._cache_ttl
    spec_cache,            \* self._spec_cache: url -> <<spec>>, <<>> when absent
    cache_timestamps,      \* self._cache_timestamps: url -> <<time>>
    auth_map,              \* self._auth_map: url -> <<authentications>>
    refresh_task,          \* self._refresh_task: "none" or "running"
    slept,                 \* how long _periodic_refresh has slept, up to the interval
    phase,                 \* lifespan of the application: startup, serving, stopped
    bg_refresh,            \* refresh tasks created by get_spec, not yet run
    now,                   \* time.time()
    prefetch,              \* prefetch_all_specs: its fetch tasks and how it ended
    \* ---- history variables
    lastGet,               \* the last get_spec call and what it returned
    lastSweep,             \* the cycle of _periodic_refresh just run, if any
    lastGood,              \* url -> the spec of the last successful fetch kept
    failedRefresh          \* url -> a refresh failed since the entry was written

VARIABLES
    \* ---- thread storage (thread_storage.py) and the use of a loaded thread
    ts_class,              \* the configured storage class, by backend name
    ts_instance,           \* "none", "ok" (constructed) or "TypeError"
    use_serialization,     \* InMemoryThreadStorage.use_serialization
    ts_data,               \* what the store holds: session id -> entry
    lastOp,                \* the last storage call and what it returned
    opened,                \* the turn just opened on a loaded thread
    \* ---- history variable
    lastWrite              \* session id -> the last save or delete that took effect

storeVars == <<ts_class, ts_instance, use_serialization, ts_data, lastOp, opened,
               lastWrite>>

VARIABLES
    \* ---- the function invocation filter and the rendering of its events
    hook_display,          \* agent.displayFunctionCallStatus of the kernel
    hook_queue,            \* function_call_queues[session_id] of the kernel
    hook_out,              \* the markers yielded from the queue, in order
    formatted,             \* the last call of _format_function_start
    \* ---- history variable
    invocations            \* the tool invocations so far: function, arguments

hookVars == <<hook_display, hook_queue, hook_out, formatted, invocations>>

VARIABLES
    \* ---- provisioning of the search resources (scripts/search_setup)
    lastCall               \* the last call of SearchResourceManager and how it went

provVars == <<lastCall>>

VARIABLES
    \* ---- get_spec calls that wait for their fetch
    cold                   \* caller -> its get_spec on an uncached URL, and how it went

raceVars == <<cold>>

VARIABLES
    \* ---- turns handled at the same time by one ChatService object
    stage,                 \* request -> where its chat() call stands
    declaresMcp,           \* request -> its agent declares MCP server tools
    svc_plugin_manager,    \* self._plugin_manager of the one ChatService object
    chat_plugin_manager,   \* request -> plugin_manager, the local of its chat()
    managers               \* manager -> entered, open plugins, who called __aexit__

turnsVars == <<stage, declaresMcp, svc_plugin_manager, chat_plugin_manager, managers>>

VARIABLES
    \* ---- the opening of the MCP servers of a manager (plugins/mcp.py)
    opening                \* _initialize_plugins: the servers, the loop, the clock

connVars == <<opening>>

VARIABLES
    \* ---- agents used as tools (plugins/agent_plugin.py)
    agent_plugins,         \* self._agent_plugins: key -> <<agent>>, <<>> when absent
    agents_made,           \* the agent objects made by AgentFactory.create_agent so far
    made_for,              \* agent -> the parent agent id and tool id it was made for
    lastNested             \* the last call of AgentPluginHandler and what it did

nestedVars == <<agent_plugins, agents_made, made_for, lastNested>>

VARIABLES
    \* ---- one call of SearchResourceManager._make_request with its arguments
    request                \* the arguments of the call, its attempts, its sleeps, its end

retryVars == <<request>>

VARIABLES
    \* ---- one FunctionCallStream (services/function_call_stream.py)
    fcs_queue,             \* self.queue, an asyncio.Queue
    is_active,             \* self.is_active
    consumer,              \* the get_events generator: unstarted, running, finished
    yielded,               \* what get_events has yielded, in order
    accepted,              \* the events add_function_call has put, in order
    rejected,              \* the events add_function_call has dropped
    closedWith             \* <<n>>: close() was called with n events in the queue

fcsVars == <<fcs_queue, is_active, consumer, yielded, accepted, rejected, closedWith>>

VARIABLES
    \* ---- one PluginManager (plugins/plugin_manager.py)
    mgr_plugins,           \* self.plugins: the ids of the tracked plugins
    plugins_made,          \* the plugin objects made by create_plugin so far
    close_count,           \* plugin -> how often its close() has been invoked
    was_tracked,           \* the plugins that have been in self.plugins
    lastPm                 \* the last call of the manager and what it returned

mgrVars == <<mgr_plugins, plugins_made, close_count, was_tracked, lastPm>>

VARIABLES
    \* ---- two turns and the module-level function_call_queues (kernel_factory.py)
    shared_queues,         \* function_call_queues: session id -> <<deque>>, <<>> without entry
    where,                 \* request -> where its turn stands
    session_of,            \* request -> the session id of its turn
    calls_made,            \* request -> the tool calls its agent has made
    recorded_by,           \* request -> the events its filter has produced, in order
    delivered              \* request -> the markers its chat() has yielded, in order

sharedVars == <<shared_queues, where, session_of, calls_made, recorded_by, delivered>>

\* the parts that stand alone: one object each, used by several callers
objVars == <<turnsVars, connVars, nestedVars, retryVars, fcsVars, mgrVars, sharedVars>>

cacheVars == <<enable_cache, cache_ttl, spec_cache, cache_timestamps, auth_map,
               refresh_task, slept, phase, bg_refresh, now, prefetch, lastGet,
               lastSweep, lastGood, failedRefresh>>

chatVars == <<pc, turnNo, sid, agentType, display, mcpTools, backend, storage,
              existing_thread, thread, threadIsStored, function_call_queues,
              inCall, calls, emitted, out, self_plugin_manager, plugin_manager,
              pm_plugins, init_failed, close_raised, kernel_fetches, kernel_unusable,
              committed, recorded, created, closeCalls,
              outcome>>

turnIn == <<turnNo, sid, agentType, display, mcpTools>>
config == <<backend, kernel_fetches, kernel_unusable>>
pmVars == <<self_plugin_manager, plugin_manager, pm_plugins, created, closeCalls,
           init_failed, close_raised>>
threadVars == <<storage, existing_thread, thread, threadIsStored, committed>>
streamVars == <<function_call_queues, inCall, calls, emitted, out, recorded>>

\* the variables an action of one part leaves alone
notChat == <<cacheVars, storeVars, hookVars, provVars, raceVars,
            objVars>>
notCache == <<chatVars, storeVars, hookVars, provVars, raceVars,
            objVars>>
notStore == <<chatVars, cacheVars, hookVars, provVars, raceVars,
            objVars>>
notHook == <<chatVars, cacheVars, storeVars, provVars, raceVars,
            objVars>>
notProv == <<chatVars, cacheVars, storeVars, hookVars, raceVars,
            objVars>>
notCacheNorRace == <<chatVars, storeVars, hookVars, provVars, objVars>>

notObj == <<chatVars, cacheVars, storeVars, hookVars, provVars, raceVars>>

vars == <<chatVars, cacheVars, storeVars, hookVars, provVars, raceVars, objVars>>

\* the variables an action of one stand-alone part leaves alone
notTurns == <<notObj, connVars, nestedVars, retryVars, fcsVars, mgrVars, sharedVars>>
notConn == <<notObj, turnsVars, nestedVars, retryVars, fcsVars, mgrVars, sharedVars>>
notNested == <<notObj, turnsVars, connVars, retryVars, fcsVars, mgrVars, sharedVars>>
notRetry == <<notObj, turnsVars, connVars, nestedVars, fcsVars, mgrVars, sharedVars>>
notFcs == <<notObj, turnsVars, connVars, nestedVars, retryVars, mgrVars, sharedVars>>
notMgr == <<notObj, turnsVars, connVars, nestedVars, retryVars, fcsVars, sharedVars>>
notShared == <<notObj, turnsVars, connVars, nestedVars, retryVars, fcsVars, mgrVars>>

\* ------------------------------------------------------------ output chunks
ContentChunk(i) == [k |-> "content", a |-> ContentText[i], b |-> ""]
ErrorChunk == [k |-> "error", a |-> "Error when invoking stream", b |-> ""]
\* _process_function_call_updates: f"{icon} {call_info['function']}\n\n"
Marker(call_info) == [k |-> "marker", a |-> call_info.type, b |-> call_info.function]

Managers == 1..MaxTurns
PluginIds == Managers \X (1..MaxPlugins)

\* ------------------------------------------------------------ thread storage
\* abc.ABC: a class is instantiable when it defines every abstract method of
\* ThreadStorage (lines 37-50).  RedisThreadStorage (lines 126-193) defines
\* __init__, _get_client, save and load.
AbstractMethods == {"save", "load", "delete"}
Methods(c) ==
    IF c = "redis" THEN {"save", "load"} ELSE {"save", "load", "delete"}
Instantiable(c) == AbstractMethods \subseteq Methods(c)

\* ChatService.__init__ builds InMemoryThreadStorage() with use_serialization
\* False: the memory backend keeps the thread object itself.
StoresObject(b) == b = "memory"

\* ThreadStorage.save: what the storage holds for session s afterwards
Save(st, s, th) == [st EXCEPT ![s] = th]

\* ThreadStorage.load: the redis and cosmosdb backends return None when the
\* read or the decoding fails
Load(b, st, s, readOk) ==
    IF StoresObject(b) THEN st[s] ELSE IF readOk THEN st[s] ELSE NoThread

\* The agent library appends to the thread's chat history in place.  When the
\* thread is the object the memory storage holds, the stored state is that
\* same object.
AppendToThread(msg) ==
    /\ thread' = Append(thread, msg)
    /\ storage' = IF threadIsStored
                  THEN [storage EXCEPT ![sid] = thread']
                  ELSE storage

\* -------------------------------------------------------- function-call queue
\* (variant: the deque is emptied from the right, newest event first)
DrainLifo(q) == [i \in 1..Len(q) |-> Marker(q[Len(q) + 1 - i])]

\* _process_function_call_updates / _process_final_function_calls:
\* popleft until the deque is empty, one marker per event
Drain(q) == [i \in 1..Len(q) |-> Marker(q[i])]

QueueOf(s) == function_call_queues[s]

\* (variant: a progress marker is yielded when there is no event to report)
UpdatesOrPlaceholder(s) ==
    IF function_call_queues[s].has /\ function_call_queues[s].q # <<>>
    THEN Drain(function_call_queues[s].q)
    ELSE <<Marker([type |-> "function_start", function |-> ""])>>

\* the chunks one call of _process_function_call_updates yields: nothing when
\* the session has no queue
FunctionCallUpdates(s) == IF QueueOf(s).has THEN Drain(QueueOf(s).q) ELSE <<>>

\* ------------------------------------------------------------ error handling
\* (variant: the handler catches only the errors of the generation stream)
HandlesGenerationOnly(err) == err = "gen_error"

\* chat() line 126, `except Exception`: the errors raised in the try block
\* that the handler catches
ExceptHandles(err) == TRUE

\* where chat() goes when err is raised in the try block: to the handler, or
\* past it to the finally block with the exception still in flight
OnRaise(err) == IF ExceptHandles(err) THEN "except" ELSE "escape"

\* (variant: the handler logs the error and yields nothing)
LogOnly(o) == o

\* chat() line 134: the handler yields one chunk
YieldError(o) == Append(o, ErrorChunk)

\* function_invocation_filter: append an event when the session has a queue
\* (variant: the filter is installed whatever the agent asks for)
RecordAlways(type, fn) ==
    IF QueueOf(sid).has
    THEN /\ function_call_queues' =
                [function_call_queues EXCEPT
                    ![sid].q = Append(@, [type |-> type, function |-> fn])]
         /\ recorded' = Append(recorded, [type |-> type, function |-> fn])
    ELSE UNCHANGED <<function_call_queues, recorded>>

Record(type, fn) ==
    IF display /\ QueueOf(sid).has
    THEN /\ function_call_queues' =
                [function_call_queues EXCEPT
                    ![sid].q = Append(@, [type |-> type, function |-> fn])]
         /\ recorded' = Append(recorded, [type |-> type, function |-> fn])
    ELSE UNCHANGED <<function_call_queues, recorded>>

\* ------------------------------------------------------------ plugin manager
\* (variant: __aexit__ without the try/except around each close(): the first
\* close() that raises ends the loop)
RECURSIVE ClosedUntilRaise(_, _)
ClosedUntilRaise(plist, raising) ==
    IF plist = <<>> THEN <<>>
    ELSE IF Head(plist) \in raising THEN <<Head(plist)>>
         ELSE <<Head(plist)>> \o ClosedUntilRaise(Tail(plist), raising)

\* MCPPluginManager.__aexit__: the plugins close() is invoked on, given the
\* set of plugins whose close() raises
AExitClosed(plist, raising) == plist

\* close() invocations added by one __aexit__ of manager m
CloseAll(cc, m, plist, raising) ==
    [p \in PluginIds |->
        IF p[1] = m /\ \E i \in 1..Len(AExitClosed(plist, raising)) :
                            AExitClosed(plist, raising)[i] = p[2]
        THEN cc[p] + 1 ELSE cc[p]]

\* (variant: the first failing server ends the initialization)
RECURSIVE InitializedUntilFailure(_, _)
InitializedUntilFailure(n, okv) ==
    IF n = 0 THEN <<>>
    ELSE LET before == InitializedUntilFailure(n - 1, okv)
         IN  IF Len(before) = n - 1 /\ okv[n] THEN Append(before, n) ELSE before

\* MCPPluginManager._initialize_plugins: the plugins appended to self.plugins,
\* in configuration order, given which of them connect
RECURSIVE Initialized(_, _)
Initialized(n, okv) ==
    IF n = 0 THEN <<>>
    ELSE IF okv[n] THEN Append(Initialized(n - 1, okv), n)
         ELSE Initialized(n - 1, okv)

\* MCPPluginManager.__aenter__; enabled is settings.mcp_enable_plugins, read
\* by get_settings() when the manager is constructed
AEnter(n, okv, enabled) ==
    IF n = 0 \/ ~enabled THEN <<>> ELSE Initialized(n, okv)

SeqToSet(q) == {q[i] : i \in 1..Len(q)}

\* ---------------------------------------------------------------- the turn
InitChat ==
    /\ pc = "idle"
    /\ turnNo = 0
    /\ sid = "s1"
    /\ agentType = "ChatCompletionAgent"
    /\ display = FALSE
    /\ mcpTools = 0
    /\ backend \in {b \in Backends : Instantiable(b)}
    /\ storage = [s \in Sessions |-> NoThread]
    /\ existing_thread = NoThread
    /\ thread = NoThread
    /\ threadIsStored = FALSE
    /\ function_call_queues = [s \in Sessions |-> NoQueue]
    /\ inCall = Null
    /\ calls = 0
    /\ emitted = 0
    /\ out = <<>>
    /\ self_plugin_manager = NoManager
    /\ plugin_manager = NoManager
    /\ pm_plugins = [m \in Managers |-> <<>>]
    /\ kernel_fetches = {}
    /\ init_failed = <<>>
    /\ close_raised = FALSE
    /\ kernel_unusable = {}
    /\ committed = [s \in Sessions |-> NoThread]
    /\ recorded = <<>>
    /\ created = {}
    /\ closeCalls = [p \in PluginIds |-> 0]
    /\ outcome = "none"

\* KernelFactory.create_kernel, lines 110-123, with _register_openapi_tool:
\* the spec of each OpenAPI tool of the agent is fetched with
\* KernelFactory._fetch_openapi_spec, in the order of agent.tools; the first
\* fetch that fails raises.  tools: the spec URLs of the tools, os: what each
\* fetch does.  The URLs fetched:
\* A tool without specUrl is not fetched (lines 224-227); a tool whose spec
\* was fetched but cannot be registered has been fetched (lines 229-249).
RECURSIVE KernelFetched(_, _)
KernelFetched(tools, os) ==
    IF tools = <<>> THEN {}
    ELSE IF os[Head(tools)].kind = "transport" THEN {Head(tools)}
    ELSE IF os[Head(tools)].kind = "no_spec_url"
         THEN KernelFetched(Tail(tools), os)
         ELSE {Head(tools)} \cup KernelFetched(Tail(tools), os)

KernelFetchesOk(tools, os) ==
    \A i \in 1..Len(tools) : os[tools[i]].kind # "transport"

\* _register_openapi_tool, lines 203-249: the tools reached by the loop of
\* create_kernel whose spec could not be fetched, is not declared, or did not
\* register
RECURSIVE KernelUnusable(_, _)
KernelUnusable(tools, os) ==
    IF tools = <<>> THEN {}
    ELSE IF os[Head(tools)].kind = "transport" THEN {Head(tools)}
    ELSE (IF os[Head(tools)].kind = "ok" THEN {} ELSE {Head(tools)})
            \cup KernelUnusable(Tail(tools), os)

\* chat() lines 57-70: a new turn starts and KernelFactory.create_kernel runs:
\* it (re)creates the session's deque, then registers the OpenAPI tools, which
\* raises when a spec cannot be fetched.  kernelOk: the rest of create_kernel
\* does not raise.
BeginTurn(s, at, d, n, kernelOk, tools, os) ==
    /\ pc = "idle"
    /\ turnNo < MaxTurns
    /\ turnNo' = turnNo + 1
    /\ sid' = s
    /\ agentType' = at
    /\ display' = d
    /\ mcpTools' = n
    /\ function_call_queues' = [function_call_queues EXCEPT ![s] = EmptyQueue]
    /\ existing_thread' = NoThread
    /\ thread' = NoThread
    /\ threadIsStored' = FALSE
    /\ inCall' = Null
    /\ calls' = 0
    /\ emitted' = 0
    /\ out' = <<>>
    /\ plugin_manager' = NoManager
    /\ recorded' = <<>>
    /\ created' = {}
    /\ init_failed' = <<>>
    /\ close_raised' = FALSE
    /\ kernel_fetches' = KernelFetched(tools, os)
    /\ kernel_unusable' = KernelUnusable(tools, os)
    /\ LET ok == kernelOk /\ KernelFetchesOk(tools, os)
       IN  /\ outcome' = IF ok THEN "none" ELSE "kernel_error"
           /\ pc' = IF ok THEN "load" ELSE OnRaise("kernel_error")
    /\ UNCHANGED <<backend, storage, self_plugin_manager,
                   pm_plugins, committed, closeCalls>>
    /\ UNCHANGED notChat

\* chat() line 73
LoadThread(readOk) ==
    /\ pc = "load"
    /\ existing_thread' = Load(backend, storage, sid, readOk)
    /\ pc' = "agent"
    /\ kernel_fetches' = {}
    /\ kernel_unusable' = {}
    /\ UNCHANGED <<turnIn, backend, pmVars, streamVars, storage, thread,
                   threadIsStored, committed, outcome>>
    /\ UNCHANGED notChat

\* chat() lines 81-90 with _create_chat_completion_agent (lines 328-420).
\* okv: which MCP servers connect; ctor: "ok" the agent is constructed,
\* "fallback" the constructor raises and the fallback without plugins is built,
\* "raise" both constructors raise; raising: the plugins whose close() raises.
CreateChatCompletionAgent(okv, enabled, ctor, raising) ==
    /\ pc = "agent"
    /\ agentType = "ChatCompletionAgent"
    /\ ctor \in (IF mcpTools > 0 THEN {"ok", "fallback", "raise"} ELSE {"ok", "raise"})
    /\ LET prev == self_plugin_manager
           hasPrev == prev # NoManager
           \* lines 346-355: clean up any previous plugin manager
           cc1 == IF hasPrev
                  THEN CloseAll(closeCalls, prev[1], pm_plugins[prev[1]], raising)
                  ELSE closeCalls
           plug1 == IF hasPrev THEN [pm_plugins EXCEPT ![prev[1]] = <<>>] ELSE pm_plugins
           sp1 == NoManager
           \* lines 364-370: MCPPluginManager(mcp_config).__aenter__()
           newlist == AEnter(mcpTools, okv, enabled)
           stored == IF mcpTools > 0 /\ ctor = "ok" THEN <<turnNo>> ELSE sp1
       IN  /\ created' = IF mcpTools > 0
                         THEN {<<turnNo, i>> : i \in SeqToSet(newlist)}
                         ELSE {}
           /\ init_failed' = IF mcpTools > 0 /\ enabled
                             THEN <<{i \in 1..mcpTools : ~okv[i]}>>
                             ELSE <<>>
           /\ close_raised' =
                 \/ close_raised
                 \/ hasPrev /\ SeqToSet(pm_plugins[prev[1]]) \cap raising # {}
                 \/ mcpTools > 0 /\ ctor # "ok" /\ SeqToSet(newlist) \cap raising # {}
           /\ self_plugin_manager' = stored
           /\ IF mcpTools > 0 /\ ctor = "ok"
              THEN \* lines 378-387
                   /\ pm_plugins' = [plug1 EXCEPT ![turnNo] = newlist]
                   /\ closeCalls' = cc1
              ELSE IF mcpTools > 0
              THEN \* lines 389-397: __aexit__ of the manager just entered
                   /\ pm_plugins' = [plug1 EXCEPT ![turnNo] = <<>>]
                   /\ closeCalls' = CloseAll(cc1, turnNo, newlist, raising)
              ELSE /\ pm_plugins' = plug1
                   /\ closeCalls' = cc1
           /\ IF ctor = "raise"
              THEN \* the exception leaves _create_chat_completion_agent
                   /\ pc' = OnRaise("agent_error")
                   /\ outcome' = "agent_error"
                   /\ UNCHANGED <<plugin_manager, thread, threadIsStored>>
              ELSE \* lines 84-90
                   /\ pc' = "invoke"
                   /\ outcome' = outcome
                   /\ plugin_manager' = stored
                   /\ thread' = existing_thread
                   /\ threadIsStored' = (StoresObject(backend) /\ existing_thread # NoThread)
    /\ UNCHANGED <<turnIn, config, streamVars, storage, existing_thread, committed>>
    /\ UNCHANGED notChat

\* chat() lines 76-77 and 91-92: _create_azure_ai_agent reads its local
\* `plugins` before assigning it and raises; any other agent type raises
\* ValueError.
CreateOtherAgent ==
    /\ pc = "agent"
    /\ agentType # "ChatCompletionAgent"
    /\ pc' = OnRaise("agent_error")
    /\ outcome' = "agent_error"
    /\ UNCHANGED <<turnIn, config, pmVars, threadVars, streamVars>>
    /\ UNCHANGED notChat

\* ai_agent.invoke_stream(messages=user_input, thread=thread), first step: the
\* library makes sure a thread exists and adds the user message to it.
InvokeStream ==
    /\ pc = "invoke"
    /\ AppendToThread("user")
    /\ pc' = "gen"
    /\ UNCHANGED <<turnIn, config, pmVars, streamVars, existing_thread,
                   threadIsStored, committed, outcome>>
    /\ UNCHANGED notChat

\* function_invocation_filter, lines 46-61: the part before next(context).
\* The filter is installed only when agent.displayFunctionCallStatus is set.
FilterBefore(fn) ==
    /\ pc = "gen"
    /\ inCall = Null
    /\ calls < MaxCalls
    /\ Record("function_start", fn)
    /\ inCall' = fn
    /\ calls' = calls + 1
    /\ UNCHANGED <<pc, turnIn, config, pmVars, threadVars, emitted, out, outcome>>
    /\ UNCHANGED notChat

\* function_invocation_filter, lines 64-75: next(context) returned
FilterAfter ==
    /\ pc = "gen"
    /\ inCall # Null
    /\ Record("function_end", inCall)
    /\ inCall' = Null
    /\ UNCHANGED <<pc, turnIn, config, pmVars, threadVars, calls, emitted, out,
                   outcome>>
    /\ UNCHANGED notChat

\* function_invocation_filter, line 64: next(context) raised; the filter has
\* no handler, so nothing more is recorded.  The stream either goes on or
\* raises.
ToolRaises(propagate) ==
    /\ pc = "gen"
    /\ inCall # Null
    /\ inCall' = Null
    /\ pc' = IF propagate THEN OnRaise("gen_error") ELSE "gen"
    /\ outcome' = IF propagate THEN "gen_error" ELSE outcome
    /\ UNCHANGED <<turnIn, config, pmVars, threadVars, function_call_queues,
                   calls, emitted, out, recorded>>
    /\ UNCHANGED notChat

\* chat() lines 101-113: the stream yields a response
GenResponse ==
    /\ pc = "gen"
    /\ inCall = Null
    /\ emitted < MaxContent
    /\ emitted' = emitted + 1
    /\ out' = out \o FunctionCallUpdates(sid) \o <<ContentChunk(emitted + 1)>>
    /\ function_call_queues' =
          IF QueueOf(sid).has
          THEN [function_call_queues EXCEPT ![sid] = EmptyQueue]
          ELSE function_call_queues
    /\ UNCHANGED <<pc, turnIn, config, pmVars, threadVars, inCall, calls,
                   recorded, outcome>>
    /\ UNCHANGED notChat

\* chat() line 101: the stream raises
GenRaise ==
    /\ pc = "gen"
    /\ inCall = Null
    /\ pc' = OnRaise("gen_error")
    /\ outcome' = "gen_error"
    /\ UNCHANGED <<turnIn, config, pmVars, threadVars, streamVars>>
    /\ UNCHANGED notChat

\* chat() lines 101 and 115-117: the stream ends (the library has added the
\* assistant message to the thread), then _process_final_function_calls
GenComplete ==
    /\ pc = "gen"
    /\ inCall = Null
    /\ AppendToThread("assistant")
    /\ out' = out \o FunctionCallUpdates(sid)
    /\ function_call_queues' = [function_call_queues EXCEPT ![sid] = NoQueue]
    /\ pc' = "save"
    /\ UNCHANGED <<turnIn, config, pmVars, existing_thread, threadIsStored,
                   committed, inCall, calls, emitted, recorded, outcome>>
    /\ UNCHANGED notChat

\* chat() lines 119-124.  The local `thread` is still None when the session
\* had no stored thread and the stream yielded no response (line 110 never
\* ran): nothing is saved.  InMemoryThreadStorage.save catches every
\* exception; the redis and cosmosdb save log and re-raise.
SaveThread(writeOk) ==
    /\ pc = "save"
    /\ IF existing_thread = NoThread /\ emitted = 0
       THEN /\ pc' = "finally"
            /\ outcome' = "ok"
            /\ UNCHANGED <<storage, threadIsStored, committed>>
       ELSE IF StoresObject(backend) \/ writeOk
       THEN /\ storage' = Save(storage, sid, thread)
            /\ threadIsStored' = StoresObject(backend)
            /\ committed' = [committed EXCEPT ![sid] = thread]
            /\ pc' = "finally"
            /\ outcome' = "ok"
       ELSE /\ pc' = OnRaise("save_error")
            /\ outcome' = "save_error"
            /\ UNCHANGED <<storage, threadIsStored, committed>>
    /\ UNCHANGED <<turnIn, config, pmVars, streamVars, existing_thread, thread>>
    /\ UNCHANGED notChat

\* chat() lines 126-134
HandleError ==
    /\ pc = "except"
    /\ out' = YieldError(out)
    /\ pc' = "finally"
    /\ kernel_fetches' = {}
    /\ kernel_unusable' = {}
    /\ UNCHANGED <<turnIn, backend, pmVars, threadVars, function_call_queues,
                   inCall, calls, emitted, recorded, outcome>>
    /\ UNCHANGED notChat

\* chat() lines 136-153.  self._mcp_plugin is never assigned, so mcp_plugin is
\* None; the manager's __aexit__ catches the exception of every close().  An
\* exception the handler did not catch leaves chat() after the block.
Finally(raising) ==
    /\ pc \in {"finally", "escape"}
    /\ IF plugin_manager # NoManager
       THEN /\ closeCalls' = CloseAll(closeCalls, plugin_manager[1],
                                      pm_plugins[plugin_manager[1]], raising)
            /\ pm_plugins' = [pm_plugins EXCEPT ![plugin_manager[1]] = <<>>]
            /\ self_plugin_manager' = NoManager
            /\ close_raised' = (\/ close_raised
                                \/ SeqToSet(pm_plugins[plugin_manager[1]]) \cap raising # {})
       ELSE UNCHANGED <<closeCalls, pm_plugins, self_plugin_manager, close_raised>>
    /\ pc' = "done"
    /\ outcome' = IF pc = "escape" THEN "escaped" ELSE outcome
    /\ kernel_fetches' = {}
    /\ kernel_unusable' = {}
    /\ UNCHANGED <<turnIn, backend, threadVars, streamVars, plugin_manager,
                   created, init_failed>>
    /\ UNCHANGED notChat

\* The response is complete and the caller is gone: the locals of chat() and
\* the observers of the turn are dropped.
EndTurn ==
    /\ pc = "done"
    /\ pc' = "idle"
    /\ sid' = "s1"
    /\ agentType' = "ChatCompletionAgent"
    /\ display' = FALSE
    /\ mcpTools' = 0
    /\ existing_thread' = NoThread
    /\ thread' = NoThread
    /\ threadIsStored' = FALSE
    /\ inCall' = Null
    /\ calls' = 0
    /\ emitted' = 0
    /\ out' = <<>>
    /\ plugin_manager' = NoManager
    /\ recorded' = <<>>
    /\ created' = {}
    /\ init_failed' = <<>>
    /\ close_raised' = FALSE
    /\ closeCalls' = [p \in PluginIds |-> 0]
    /\ outcome' = "none"
    /\ UNCHANGED <<turnNo, backend, storage, committed, function_call_queues,
                   self_plugin_manager, pm_plugins, kernel_fetches,
                   kernel_unusable>>
    /\ UNCHANGED notChat

\* the steps of a turn that has begun
TurnSteps ==
    \/ \E readOk \in BOOLEAN : LoadThread(readOk)
    \/ \E okv \in [1..MaxPlugins -> BOOLEAN], enabled \in BOOLEAN,
          ctor \in {"ok", "fallback", "raise"}, raising \in SUBSET (1..MaxPlugins) :
            CreateChatCompletionAgent(okv, enabled, ctor, raising)
    \/ CreateOtherAgent
    \/ InvokeStream
    \/ \E fn \in Functions : FilterBefore(fn)
    \/ FilterAfter
    \/ \E propagate \in BOOLEAN : ToolRaises(propagate)
    \/ GenResponse
    \/ GenRaise
    \/ GenComplete
    \/ \E writeOk \in BOOLEAN : SaveThread(writeOk)
    \/ HandleError
    \/ \E raising \in SUBSET (1..MaxPlugins) : Finally(raising)
    \/ EndTurn

\* agent.tools: lists of OpenAPI tools, each URL at most once
ToolLists == {<<>>} \cup {<<u>> : u \in Urls}
                \cup ({<<u, v>> : u, v \in Urls} \ {<<u, u>> : u \in Urls})

\* turns of agents that declare no OpenAPI tool
NextChat ==
    \/ \E s \in Sessions, at \in AgentTypes, d \in BOOLEAN,
          n \in 0..MaxPlugins, kernelOk \in BOOLEAN :
            BeginTurn(s, at, d, n, kernelOk, <<>>, <<>>)
    \/ TurnSteps

\* turns of agents that declare no MCP server
NextPlain ==
    \/ \E s \in Sessions, at \in AgentTypes, d \in BOOLEAN, kernelOk \in BOOLEAN :
            BeginTurn(s, at, d, 0, kernelOk, <<>>, <<>>)
    \/ TurnSteps

\* turns of agents that declare OpenAPI tools and no MCP server
NextTools ==
    \/ \E s \in Sessions, at \in AgentTypes, d \in BOOLEAN, tools \in ToolLists :
          \E os \in [{tools[i] : i \in 1..Len(tools)} -> ToolOutcomes] :
            BeginTurn(s, at, d, 0, TRUE, tools, os)
    \/ TurnSteps


\* =================================================================== cache
\* settings.openapi_cache_ttl_seconds and
\* settings.openapi_cache_refresh_interval_seconds, as the model sets them
TtlValues == {4, 5}
RefreshInterval == 2
None == <<>>
Returned(val) == [raised |-> FALSE, val |-> val]
Raised == [raised |-> TRUE, val |-> None]

\* _fetch_openapi_spec: returns the parsed document, raises on a transport,
\* HTTP or parse failure
FetchOpenapiSpec(o) == IF o.kind = "ok" THEN Returned(<<o.v>>) ELSE Raised

\* (variant: no handler around the fetch)
Unguarded(r) == r

\* try: ... except Exception: return None
ReturnNoneOnError(r) == IF r.raised THEN Returned(None) ELSE r

\* `if spec:` in _fetch_and_cache_spec: an empty document is falsy
Truthy(val) == val # None /\ val[1] # 0

\* _fetch_and_cache_spec, lines 231-235: whether the result is written
Caches(r) == ~r.raised /\ Truthy(r.val)

\* _fetch_and_cache_spec: what it returns (it catches every exception)
FetchAndCacheResult(r) == ReturnNoneOnError(r)

\* (variant: the comparison of line 192 written with >=)
GettingStaleAtLeast(t, ts, ttl) == 4 * (t - ts) >= 3 * ttl

\* get_spec line 192: current_time - last_fetch_time > self._cache_ttl * 0.75
GettingStale(t, ts, ttl) == 4 * (t - ts) > 3 * ttl

\* _periodic_refresh line 129: current_time - timestamp > self._cache_ttl / 2
SweepStale(t, ts, ttl) == 2 * (t - ts) > ttl

\* self._cache_timestamps.get(spec_url, 0)
TimestampOr0(u) == IF cache_timestamps[u] = None THEN 0 ELSE cache_timestamps[u][1]

Pending == [Urls \X Auths -> 0..MaxPending]
RECURSIVE SumOver(_, _)
SumOver(f, S) ==
    IF S = {} THEN 0
    ELSE LET x == CHOOSE y \in S : TRUE IN f[x] + SumOver(f, S \ {x})
TotalPending == SumOver(bg_refresh, Urls \X Auths)

NoGet == [url |-> "", auth |-> "", hit |-> FALSE, age |-> 0, cached |-> None,
          res |-> Returned(None), scheduled |-> 0]

\* the OpenAPI tools of the agents in the order they are met: the specUrl of
\* each, "" for a tool that declares none
NoSpecUrl == ""
RECURSIVE SeqsUpTo(_, _)
SeqsUpTo(S, n) ==
    IF n = 0 THEN {<<>>}
    ELSE LET shorter == SeqsUpTo(S, n - 1)
         IN  shorter \cup {Append(q, x) : q \in shorter, x \in S}
Declarations == SeqsUpTo(Urls \cup {NoSpecUrl}, MaxTools)

\* prefetch_all_specs lines 83-91: spec_urls, a set
SpecUrls(tools) == {tools[i] : i \in 1..Len(tools)} \ {NoSpecUrl}

\* (variant: one fetch task for each declaration)
TasksPerDeclaration(tools, u) == Cardinality({i \in 1..Len(tools) : tools[i] = u})

\* prefetch_all_specs lines 94-96: the fetch tasks created for url u
FetchTasks(tools, u) == IF u \in SpecUrls(tools) THEN 1 ELSE 0

\* prefetch_all_specs lines 107-108: except Exception, logged
Logged(r) == IF r.raised THEN "logged" ELSE "done"

\* the configuration client lists the agents or raises
ListAgents(agentsOk, tools) == IF agentsOk THEN Returned(tools) ELSE Raised

\* declared: the tools listed; pending: url -> fetch tasks not finished;
\* fetched: url -> fetches made;
\* outcome: "" before the call, "fetching" inside gather, then "disabled",
\* "done" or "logged"
NoPrefetch == [declared |-> <<>>, pending |-> [u \in Urls |-> 0],
               fetched |-> [u \in Urls |-> 0], outcome |-> ""]

\* no cycle of _periodic_refresh has just run
NoSweep == [ran |-> FALSE, attempted |-> {}, failed |-> {}]

InitCacheFields ==
    /\ spec_cache = [u \in Urls |-> None]
    /\ cache_timestamps = [u \in Urls |-> None]
    /\ auth_map = [u \in Urls |-> None]
    /\ refresh_task = "none"
    /\ slept = 0
    /\ phase = "startup"
    /\ bg_refresh = [x \in Urls \X Auths |-> 0]
    /\ now = 0
    /\ prefetch = NoPrefetch
    /\ lastGet = NoGet
    /\ lastSweep = NoSweep
    /\ lastGood = [u \in Urls |-> None]
    /\ failedRefresh = [u \in Urls |-> FALSE]

\* jobs: url -> <<>> or <<[a |-> authentications, r |-> what the fetch did]>>.
\* The effect of one _fetch_and_cache_spec per url that has a job (lines
\* 229-243): the three maps are written when the fetch returned a truthy
\* document and left alone otherwise.
NoJobs == [u \in Urls |-> <<>>]
Job(a, r) == <<[a |-> a, r |-> r]>>
Written(jobs, u) == jobs[u] # <<>> /\ Caches(jobs[u][1].r)

\* (variant: a fetch that fails removes the entry)
CacheAfterEvicting(old, job) ==
    IF job = <<>> THEN old
    ELSE IF Caches(job[1].r) THEN job[1].r.val
    ELSE IF job[1].r.raised THEN None ELSE old

\* (variant: an entry that exists is not replaced)
FirstWriteKept(old, job) ==
    IF old = None /\ job # <<>> /\ Caches(job[1].r) THEN job[1].r.val ELSE old

\* self._spec_cache[spec_url] after the job (if any) for that url
CacheAfter(old, job) ==
    IF job # <<>> /\ Caches(job[1].r) THEN job[1].r.val ELSE old

\* (variant: the timestamp is set when the entry is first written only)
TimestampKeptOnRefresh(old, job, t) ==
    IF job # <<>> /\ Caches(job[1].r) /\ old = None THEN <<t>> ELSE old

\* self._cache_timestamps[spec_url] after the job (if any) for that url, line 234
TimestampAfter(old, job, t) ==
    IF job # <<>> /\ Caches(job[1].r) THEN <<t>> ELSE old

ApplyFetches(jobs) ==
    /\ spec_cache' = [u \in Urls |-> CacheAfter(spec_cache[u], jobs[u])]
    /\ cache_timestamps' = [u \in Urls |->
            TimestampAfter(cache_timestamps[u], jobs[u], now)]
    /\ auth_map' = [u \in Urls |->
            IF Written(jobs, u) THEN <<jobs[u][1].a>> ELSE auth_map[u]]
    /\ lastGood' = [u \in Urls |->
            IF Written(jobs, u) THEN jobs[u][1].r.val ELSE lastGood[u]]
    /\ failedRefresh' = [u \in Urls |->
            IF Written(jobs, u) THEN FALSE
            ELSE failedRefresh[u]
                 \/ (jobs[u] # <<>> /\ jobs[u][1].r.raised /\ spec_cache[u] # None)]

StoreSpec(u, a, r) == ApplyFetches([NoJobs EXCEPT ![u] = Job(a, r)])

\* get_spec(spec_url, authentications).  o is what the fetch of this call
\* does, o2 what the last-resort direct fetch of lines 216-221 does.
GetSpec(u, a, o) ==
    /\ phase = "serving"
    /\ IF ~enable_cache
       THEN \* lines 170-175
            /\ lastGet' = [url |-> u, auth |-> a, hit |-> FALSE, age |-> 0,
                           cached |-> spec_cache[u],
                           res |-> ReturnNoneOnError(FetchOpenapiSpec(o)),
                           scheduled |-> 0]
            /\ UNCHANGED <<spec_cache, cache_timestamps, auth_map, lastGood,
                           failedRefresh, bg_refresh>>
       ELSE IF spec_cache[u] # None
       THEN \* lines 182-207
            LET stale == GettingStale(now, TimestampOr0(u), cache_ttl) IN
            /\ stale => TotalPending < MaxPending
            /\ bg_refresh' = IF stale
                             THEN [bg_refresh EXCEPT ![<<u, a>>] = @ + 1]
                             ELSE bg_refresh
            /\ lastGet' = [url |-> u, auth |-> a, hit |-> TRUE,
                           age |-> now - TimestampOr0(u),
                           cached |-> spec_cache[u],
                           res |-> Returned(spec_cache[u]),
                           scheduled |-> bg_refresh'[<<u, a>>] - bg_refresh[<<u, a>>]]
            /\ UNCHANGED <<spec_cache, cache_timestamps, auth_map, lastGood,
                           failedRefresh>>
       ELSE \* lines 209-221
            LET r == FetchOpenapiSpec(o)
                first == FetchAndCacheResult(r)
            IN  /\ StoreSpec(u, a, r)
                /\ \E o2 \in (IF first.raised THEN FetchOutcomes ELSE {o}) :
                     lastGet' = [url |-> u, auth |-> a, hit |-> FALSE, age |-> 0,
                                 cached |-> None,
                                 res |-> IF first.raised
                                         THEN ReturnNoneOnError(FetchOpenapiSpec(o2))
                                         ELSE first,
                                 scheduled |-> 0]
                /\ UNCHANGED bg_refresh
    /\ UNCHANGED <<enable_cache, cache_ttl, refresh_task, slept, phase, now, prefetch>>
    /\ lastSweep' = NoSweep
    /\ UNCHANGED notCache

\* the task created at get_spec line 196 runs:
\* _fetch_and_cache_spec(spec_url, authentications, is_refresh=True)
BackgroundRefresh(u, a, o) ==
    /\ bg_refresh[<<u, a>>] > 0
    /\ bg_refresh' = [bg_refresh EXCEPT ![<<u, a>>] = @ - 1]
    /\ StoreSpec(u, a, FetchOpenapiSpec(o))
    /\ lastGet' = NoGet
    /\ UNCHANGED <<enable_cache, cache_ttl, refresh_task, slept, phase, now, prefetch>>
    /\ lastSweep' = NoSweep
    /\ UNCHANGED notCache


\* _periodic_refresh, one cycle (lines 119-142): the sleep is over, every entry
\* older than half the TTL is refreshed with the authentications kept for it;
\* gather(..., return_exceptions=True) waits for all of them.
SweepDue == {u \in Urls : /\ cache_timestamps[u] # None
                           /\ SweepStale(now, cache_timestamps[u][1], cache_ttl)}

SweepCycle(os) ==
    /\ refresh_task = "running"
    /\ slept >= RefreshInterval
    /\ LET refresh_tasks == [u \in Urls |->
                IF u \in SweepDue
                THEN Job(IF auth_map[u] = None THEN "none" ELSE auth_map[u][1],
                         FetchOpenapiSpec(os[u]))
                ELSE <<>>]
       IN  /\ ApplyFetches(refresh_tasks)
           /\ lastSweep' = [ran |-> TRUE,
                            attempted |-> {u \in Urls : refresh_tasks[u] # <<>>},
                            failed |-> {u \in Urls : /\ refresh_tasks[u] # <<>>
                                                     /\ refresh_tasks[u][1].r.raised}]
    /\ slept' = 0
    /\ lastGet' = NoGet
    /\ UNCHANGED <<enable_cache, cache_ttl, refresh_task, phase, bg_refresh, now, prefetch>>
    /\ UNCHANGED notCache

\* lifespan of main.py, startup: prefetch_all_specs up to the gather of line
\* 100 (lines 66-96).  agentsOk: the configuration client lists the agents;
\* tools: the OpenAPI tools they declare.  Every tool is declared with one
\* authentication.
PrefetchAllSpecs(agentsOk, tools) ==
    /\ phase = "startup"
    /\ LET agents == ListAgents(agentsOk, tools) IN
       IF ~enable_cache
       THEN \* lines 71-73
            /\ prefetch' = [NoPrefetch EXCEPT !.outcome = "disabled"]
            /\ phase' = "serving"
       ELSE IF agents.raised
       THEN \* line 80 raises: lines 107-108
            /\ prefetch' = [NoPrefetch EXCEPT !.outcome = Logged(agents)]
            /\ phase' = "serving"
       ELSE /\ prefetch' = [declared |-> agents.val,
                            pending |-> [u \in Urls |-> FetchTasks(agents.val, u)],
                            fetched |-> [u \in Urls |-> 0],
                            outcome |-> "fetching"]
            /\ phase' = "prefetching"
    /\ lastGet' = NoGet
    /\ UNCHANGED <<enable_cache, cache_ttl, spec_cache, cache_timestamps, auth_map,
                   lastGood, failedRefresh, refresh_task, slept, bg_refresh, now>>
    /\ lastSweep' = NoSweep
    /\ UNCHANGED notCache

\* one of the fetch tasks of line 96 finishes:
\* _fetch_and_cache_spec(spec_url, auth_map.get(spec_url)).  A task that
\* raised would end the gather of line 100 and with it the prefetch.
PrefetchFetch(u, o) ==
    /\ phase = "prefetching"
    /\ prefetch.pending[u] > 0
    /\ LET r == FetchOpenapiSpec(o)
           task == FetchAndCacheResult(r)
           after == [prefetch EXCEPT !.pending[u] = @ - 1, !.fetched[u] = @ + 1]
       IN  /\ StoreSpec(u, "header", r)
           /\ IF task.raised
              THEN /\ prefetch' = [after EXCEPT !.outcome = Logged(task)]
                   /\ phase' = "serving"
              ELSE /\ prefetch' = after
                   /\ phase' = phase
    /\ lastGet' = NoGet
    /\ UNCHANGED <<enable_cache, cache_ttl, refresh_task, slept, bg_refresh, now>>
    /\ lastSweep' = NoSweep
    /\ UNCHANGED notCache

\* the gather of line 100 is over
Gathered(p) == \A u \in Urls : p.pending[u] = 0

\* prefetch_all_specs lines 102-106: the refresh task is started, and the
\* application starts serving
PrefetchStartRefresh ==
    /\ phase = "prefetching"
    /\ Gathered(prefetch)
    /\ phase' = "serving"
    /\ refresh_task' = "running"
    /\ slept' = IF refresh_task = "none" THEN 0 ELSE slept
    /\ prefetch' = [NoPrefetch EXCEPT !.outcome = "done"]
    /\ lastGet' = NoGet
    /\ UNCHANGED <<enable_cache, cache_ttl, spec_cache, cache_timestamps, auth_map,
                   lastGood, failedRefresh, bg_refresh, now>>
    /\ lastSweep' = NoSweep
    /\ UNCHANGED notCache

\* lifespan of main.py, shutdown: cleanup (lines 294-307) with clear_cache
\* (lines 245-250)
\* (variant: the task is left as it is)
LeftRunning(task) == task

\* cleanup lines 297-303: the task, if any, is cancelled and awaited
\* (_periodic_refresh returns from its except CancelledError), then
\* self._refresh_task = None
CancelledAndAwaited(task) == "none"

Cleanup ==
    /\ phase = "serving"
    /\ phase' = "stopped"
    /\ refresh_task' = CancelledAndAwaited(refresh_task)
    /\ spec_cache' = [u \in Urls |-> None]
    /\ cache_timestamps' = [u \in Urls |-> None]
    /\ auth_map' = [u \in Urls |-> None]
    /\ lastGood' = [u \in Urls |-> None]
    /\ failedRefresh' = [u \in Urls |-> FALSE]
    /\ lastGet' = NoGet
    /\ UNCHANGED <<enable_cache, cache_ttl, slept, bg_refresh, now, prefetch>>
    /\ lastSweep' = NoSweep
    /\ UNCHANGED notCache

\* time passes
Tick ==
    /\ phase = "serving"
    /\ now < MaxTime
    /\ now' = now + 1
    /\ slept' = IF refresh_task = "running" /\ slept < RefreshInterval
                THEN slept + 1 ELSE slept
    /\ lastGet' = NoGet
    /\ UNCHANGED <<enable_cache, cache_ttl, spec_cache, cache_timestamps, auth_map,
                   refresh_task, phase, bg_refresh, prefetch, lastGood,
                   failedRefresh>>
    /\ lastSweep' = NoSweep
    /\ UNCHANGED notCache

NextCache ==
    \/ \E u \in Urls, a \in Auths, o \in FetchOutcomes : GetSpec(u, a, o)
    \/ \E u \in Urls, a \in Auths, o \in FetchOutcomes : BackgroundRefresh(u, a, o)
    \/ \E os \in [SweepDue -> BulkOutcomes] : SweepCycle(os)
    \/ \E agentsOk \in BOOLEAN, tools \in Declarations :
          PrefetchAllSpecs(agentsOk, tools)
    \/ \E u \in Urls, o \in BulkOutcomes : PrefetchFetch(u, o)
    \/ PrefetchStartRefresh
    \/ Cleanup
    \/ Tick

\* ------------------------------------------- get_spec calls that overlap
\* A get_spec on an uncached URL waits at `await self._fetch_openapi_spec`
\* (line 229, reached from line 210); other callers run meanwhile.
Callers == {"c1", "c2"}
NoFetchOutcome == [kind |-> "", v |-> 0]
\* stage: idle, fetching (inside the await), returned; o: what the fetch of
\* this call did; res: what get_spec returned; at: when the fetch ended;
\* seq: the position of this call among those that have ended
Idle == [stage |-> "idle", url |-> "", auth |-> "", o |-> NoFetchOutcome,
         res |-> Returned(None), at |-> 0, seq |-> 0]

InitRaceFields == cold = [c \in Callers |-> Idle]

Ended == {c \in Callers : cold[c].stage = "returned"}

\* get_spec lines 178-210 and _fetch_and_cache_spec lines 225-229: the URL
\* is not in the cache and the fetch is sent
ColdGetBegin(c, u, a) ==
    /\ phase = "serving"
    /\ enable_cache
    /\ cold[c].stage = "idle"
    /\ spec_cache[u] = None
    /\ cold' = [cold EXCEPT ![c] = [Idle EXCEPT !.stage = "fetching", !.url = u,
                                                !.auth = a]]
    /\ lastGet' = NoGet
    /\ lastSweep' = NoSweep
    /\ UNCHANGED <<enable_cache, cache_ttl, spec_cache, cache_timestamps, auth_map,
                   refresh_task, slept, phase, bg_refresh, now, prefetch, lastGood,
                   failedRefresh>>
    /\ UNCHANGED notCacheNorRace

\* _fetch_and_cache_spec lines 229-243 and the return of get_spec (line 210,
\* lines 212-221 if it raised): the fetch of caller c ends as o says
ColdGetEnd(c, o) ==
    /\ cold[c].stage = "fetching"
    /\ LET r == FetchOpenapiSpec(o)
           first == FetchAndCacheResult(r)
       IN  /\ StoreSpec(cold[c].url, cold[c].auth, r)
           /\ cold' = [cold EXCEPT ![c] =
                  [@ EXCEPT !.stage = "returned", !.o = o,
                            !.res = IF first.raised
                                    THEN ReturnNoneOnError(FetchOpenapiSpec(o))
                                    ELSE first,
                            !.at = now,
                            !.seq = Cardinality(Ended) + 1]]
    /\ lastGet' = NoGet
    /\ lastSweep' = NoSweep
    /\ UNCHANGED <<enable_cache, cache_ttl, refresh_task, slept, phase, bg_refresh,
                   now, prefetch>>
    /\ UNCHANGED notCacheNorRace

NextRace ==
    \/ \E c \in Callers, u \in Urls, a \in Auths : ColdGetBegin(c, u, a)
    \/ \E c \in Callers, o \in FetchOutcomes : ColdGetEnd(c, o)
    \/ Tick

\* ==================================================== thread storage classes
\* Session ids are strings (routes/chat.py: session_id: str, not validated),
\* here sequences of characters; one of them holds a quote.
Ids == {<<"a">>, <<"a", "'">>}
ExternalIds == {"X", "Y"}

\* Python objects by class and fields.  id "" is an id of None.
NoObj == [cls |-> "NoneType", thread_type |-> "", id |-> "", hist |-> 0]
ChatHistoryAgentThread(h) ==
    [cls |-> "ChatHistoryAgentThread", thread_type |-> "", id |-> "c", hist |-> h]
AzureAIAgentThread(x) ==
    [cls |-> "AzureAIAgentThread", thread_type |-> "", id |-> x, hist |-> 0]
\* class SerializableThread, lines 12-29
SerializableThread(tt, x) ==
    [cls |-> "SerializableThread", thread_type |-> tt, id |-> x, hist |-> 0]

\* the threads a caller can hand to save: a chat thread with h messages, a
\* service thread with an id, a service thread not yet created on the service
Threads ==
    {ChatHistoryAgentThread(h) : h \in 0..MaxHist}
        \cup {AzureAIAgentThread(x) : x \in ExternalIds \cup {""}}

IsNone(o) == o.cls = "NoneType"
IsInstance(o, c) == o.cls = c

\* base64.b64encode(pickle.dumps(o)).decode('ascii') and its inverse
\* pickle.loads(base64.b64decode(data)): the class and the instance state
NoPickle == <<"", "", "", 0>>
Pickle(o) == <<o.cls, o.thread_type, o.id, o.hist>>
Unpickle(p) == [cls |-> p[1], thread_type |-> p[2], id |-> p[3], hist |-> p[4]]

\* an entry of the store: nothing, the object itself, or the encoded object
Absent == [form |-> "absent", obj |-> NoObj, data |-> NoPickle]
Held(o) == [form |-> "object", obj |-> o, data |-> NoPickle]
Encoded(o) == [form |-> "b64", obj |-> NoObj, data |-> Pickle(o)]

\* (variant: the thread object is what is kept, whatever its class)
KeepsLiveObject(ser, th) == IF ser THEN Encoded(th) ELSE Held(th)

\* what save writes for thread th (lines 67-93, 146-171, 259-300): the wrapper
\* of a service thread, else the thread; encoded unless the memory storage
\* runs without serialization
Stored(ser, th) ==
    LET o == IF th.cls = "AzureAIAgentThread"
             THEN SerializableThread("AzureAIAgentThread", th.id)
             ELSE th
    IN  IF ser THEN Encoded(o) ELSE Held(o)

\* a service thread without an id is not saved (lines 81-83, 162-164, 283-285)
Saveable(th) == ~(th.cls = "AzureAIAgentThread" /\ th.id = "")

\* save: [data, raised].  The memory storage swallows every exception; redis
\* and cosmosdb log and re-raise (lines 173-175, 303-305).
ThreadSave(c, ser, d, s, th, ioOk) ==
    IF c = "memory"
    THEN [data |-> IF Saveable(th) THEN [d EXCEPT ![s] = Stored(ser, th)] ELSE d,
          raised |-> FALSE]
    ELSE IF ~ioOk
    THEN [data |-> d, raised |-> TRUE]
    ELSE [data |-> IF Saveable(th) THEN [d EXCEPT ![s] = Stored(TRUE, th)] ELSE d,
          raised |-> FALSE]

\* CosmosDbThreadStorage.load line 313: the session id is pasted between two
\* quotes into the query text.  The string literal of the query ends at the
\* first quote after the opening one; text after it that is no query syntax
\* makes the query malformed.
QueryLiteral(s) == <<"'">> \o s \o <<"'">>
ClosingQuote(text) ==
    LET qs == {i \in 2..Len(text) : text[i] = "'"}
    IN  CHOOSE i \in qs : \A k \in qs : i <= k
ParsedLiteral(text) == SubSeq(text, 2, ClosingQuote(text) - 1)
WellFormedQuery(text) == ClosingQuote(text) = Len(text)

\* container.query_items(query): the documents whose partition key equals the
\* literal of the query; raises on a malformed query
QueryItems(d, s) ==
    LET lit == ParsedLiteral(QueryLiteral(s))
    IN  IF lit \in Ids /\ d[lit].form # "absent" THEN <<d[lit]>> ELSE <<>>
QueryRaises(s) == ~WellFormedQuery(QueryLiteral(s))

\* load: the object returned, NoObj for None.  Redis and Cosmos DB return None
\* when anything raises (lines 191-193, 328-330).
ThreadLoad(c, ser, d, s, ioOk) ==
    IF c = "memory"
    THEN IF d[s].form = "absent" THEN NoObj
         ELSE IF ser THEN Unpickle(d[s].data) ELSE d[s].obj
    ELSE IF ~ioOk THEN NoObj
    ELSE IF c = "redis"
    THEN IF d[s].form = "absent" THEN NoObj ELSE Unpickle(d[s].data)
    ELSE IF QueryRaises(s) THEN NoObj
    ELSE LET items == QueryItems(d, s)
         IN  IF items = <<>> THEN NoObj ELSE Unpickle(items[1].data)

\* delete (lines 119-123, 332-342): [data, raised].  Cosmos DB logs a failure
\* and returns; RedisThreadStorage has no such attribute.
ThreadDelete(c, d, s, ioOk) ==
    IF c = "memory" THEN [data |-> [d EXCEPT ![s] = Absent], raised |-> FALSE]
    ELSE IF c = "redis" THEN [data |-> d, raised |-> TRUE]
    ELSE [data |-> IF ioOk THEN [d EXCEPT ![s] = Absent] ELSE d, raised |-> FALSE]

NoOp == [op |-> "none", sid |-> <<>>, io |-> TRUE, res |-> NoObj, raised |-> FALSE]
NoWrite == [kind |-> "none", th |-> NoObj]
NoTurn == [agentType |-> "", sid |-> <<>>, existing |-> NoObj, raised |-> FALSE,
           thread |-> NoObj]

InitStoreFields ==
    /\ ts_class = "memory"
    /\ ts_instance = "none"
    /\ use_serialization = FALSE
    /\ ts_data = [s \in Ids |-> Absent]
    /\ lastOp = NoOp
    /\ opened = NoTurn
    /\ lastWrite = [s \in Ids |-> NoWrite]

\* ChatService.__init__, lines 30-53: the storage class named by
\* settings.thread_storage_type is instantiated
Construct ==
    /\ ts_instance = "none"
    /\ ts_instance' = IF Instantiable(ts_class) THEN "ok" ELSE "TypeError"
    /\ UNCHANGED <<ts_class, use_serialization, ts_data, lastOp, opened, lastWrite>>
    /\ UNCHANGED notStore

SaveOp(s, th, ioOk) ==
    /\ ts_instance = "ok"
    /\ LET r == ThreadSave(ts_class, use_serialization, ts_data, s, th, ioOk)
       IN  /\ ts_data' = r.data
           /\ lastOp' = [op |-> "save", sid |-> s, io |-> ioOk,
                         res |-> NoObj, raised |-> r.raised]
           /\ lastWrite' = IF r.raised THEN lastWrite
                           ELSE [lastWrite EXCEPT ![s] = [kind |-> "save", th |-> th]]
    /\ opened' = NoTurn
    /\ UNCHANGED <<ts_class, ts_instance, use_serialization>>
    /\ UNCHANGED notStore

LoadOp(s, ioOk) ==
    /\ ts_instance = "ok"
    /\ lastOp' = [op |-> "load", sid |-> s, io |-> ioOk,
                  res |-> ThreadLoad(ts_class, use_serialization, ts_data, s, ioOk),
                  raised |-> FALSE]
    /\ opened' = NoTurn
    /\ UNCHANGED <<ts_class, ts_instance, use_serialization, ts_data, lastWrite>>
    /\ UNCHANGED notStore

DeleteOp(s, ioOk) ==
    /\ ts_instance = "ok"
    /\ LET r == ThreadDelete(ts_class, ts_data, s, ioOk)
       IN  /\ ts_data' = r.data
           /\ lastOp' = [op |-> "delete", sid |-> s, io |-> ioOk,
                         res |-> NoObj, raised |-> r.raised]
           /\ lastWrite' = IF r.data = ts_data /\ ts_data[s].form # "absent"
                           THEN lastWrite
                           ELSE [lastWrite EXCEPT ![s] = [kind |-> "delete", th |-> NoObj]]
    /\ opened' = NoTurn
    /\ UNCHANGED <<ts_class, ts_instance, use_serialization>>
    /\ UNCHANGED notStore

\* ---- the use of a loaded thread by a turn (chat_service.py lines 72-92)
\* _create_azure_ai_agent (lines 422-487) reads its local `plugins` at line
\* 431; the names bound when the function is entered are its parameters, and
\* `plugins` is assigned only at line 432: the read raises UnboundLocalError.
BoundAtEntry == {"self", "kernel", "agent", "kernel_settings"}
CreateAzureAIAgentRaises == "plugins" \notin BoundAtEntry

\* lines 79-80 and 89-90: the loaded value is used when it is an instance of
\* the agent's thread class, else the thread stays None and the agent library
\* starts a new one
UseExisting(existing, c) ==
    IF ~IsNone(existing) /\ IsInstance(existing, c) THEN existing ELSE NoObj

\* lines 76-92: [raised, thread]
ThreadForTurn(at, existing, ctorOk) ==
    IF at = "AzureAIAgent"
    THEN IF CreateAzureAIAgentRaises
         THEN [raised |-> TRUE, thread |-> NoObj]
         ELSE [raised |-> FALSE, thread |-> UseExisting(existing, "AzureAIAgentThread")]
    ELSE IF at = "ChatCompletionAgent"
    THEN IF ctorOk
         THEN [raised |-> FALSE, thread |-> UseExisting(existing, "ChatHistoryAgentThread")]
         ELSE [raised |-> TRUE, thread |-> NoObj]
    ELSE [raised |-> TRUE, thread |-> NoObj]

\* chat() lines 72-92: load the session's thread and choose the thread of the
\* turn
OpenTurn(s, at, ioOk, ctorOk) ==
    /\ ts_instance = "ok"
    /\ LET existing == ThreadLoad(ts_class, use_serialization, ts_data, s, ioOk)
           r == ThreadForTurn(at, existing, ctorOk)
       IN  /\ lastOp' = [op |-> "load", sid |-> s, io |-> ioOk,
                         res |-> existing, raised |-> FALSE]
           /\ opened' = [agentType |-> at, sid |-> s, existing |-> existing,
                         raised |-> r.raised, thread |-> r.thread]
    /\ UNCHANGED <<ts_class, ts_instance, use_serialization, ts_data, lastWrite>>
    /\ UNCHANGED notStore

NextStorage ==
    \/ Construct
    \/ \E s \in Ids, th \in Threads, ioOk \in BOOLEAN : SaveOp(s, th, ioOk)
    \/ \E s \in Ids, ioOk \in BOOLEAN : LoadOp(s, ioOk)
    \/ \E s \in Ids, ioOk \in BOOLEAN : DeleteOp(s, ioOk)
    \/ \E s \in Ids, at \in AgentTypes, ctorOk \in BOOLEAN :
          OpenTurn(s, at, TRUE, ctorOk)

\* ============================================ function invocation events
\* the arguments of a tool invocation (context.arguments): a value for each
\* parameter name; api_key is one of them
ArgNames == {"api_key", "q"}
ArgValues == {"k1", "k2"}
Arguments == [ArgNames -> ArgValues]
\* call_info.get("arguments") of an event that has no such key
NoArguments == <<>>

\* the events function_invocation_filter appends (kernel_factory.py lines
\* 56-60 and 71-75): type, function and a timestamp; context.arguments is not
\* read
FunctionStartEvent(fn, args) ==
    [type |-> "function_start", function |-> fn, arguments |-> NoArguments]
FunctionEndEvent(fn, args) ==
    [type |-> "function_end", function |-> fn, arguments |-> NoArguments]

\* json.dumps(arguments, indent=2): every name with its value
JsonDumps(args) == {<<n, args[n]>> : n \in DOMAIN args}

\* FunctionCallStream._format_function_start (function_call_stream.py lines
\* 94-116): the summary names the function, the details hold the arguments
\* of the event as JSON when the event has any
FormatFunctionStart(call_info) ==
    [summary |-> <<"Calling", call_info.function>>,
     details |-> IF call_info.arguments # NoArguments
                 THEN JsonDumps(call_info.arguments[1])
                 ELSE {}]

\* the events that can be handed to _format_function_start
CallInfos ==
    [type : {"function_start"}, function : Functions,
     arguments : {NoArguments} \cup {<<a>> : a \in Arguments}]

NoFormat == [given |-> FALSE, call_info |-> FunctionStartEvent("", <<>>),
             message |-> FormatFunctionStart(FunctionStartEvent("", <<>>))]

InitHookFields ==
    /\ hook_display = FALSE
    /\ hook_queue = <<>>
    /\ hook_out = <<>>
    /\ formatted = NoFormat
    /\ invocations = <<>>

\* function_invocation_filter (kernel_factory.py lines 44-75) around one tool
\* invocation; without displayFunctionCallStatus the filter is not installed
\* (lines 77-78) and the tool runs alone
Invoke(fn, args, raises) ==
    /\ Len(invocations) < MaxInvocations
    /\ invocations' = Append(invocations, [function |-> fn, arguments |-> args])
    /\ hook_queue' =
          IF ~hook_display THEN hook_queue
          ELSE IF raises THEN Append(hook_queue, FunctionStartEvent(fn, args))
          ELSE hook_queue \o <<FunctionStartEvent(fn, args), FunctionEndEvent(fn, args)>>
    /\ UNCHANGED <<hook_display, hook_out, formatted>>
    /\ UNCHANGED notHook

\* ChatService._process_function_call_updates (chat_service.py lines
\* 243-250): every queued event is taken from the left and yielded as a marker
ProcessFunctionCallUpdates ==
    /\ hook_queue # <<>>
    /\ hook_out' = hook_out \o [i \in 1..Len(hook_queue) |-> Marker(hook_queue[i])]
    /\ hook_queue' = <<>>
    /\ UNCHANGED <<hook_display, formatted, invocations>>
    /\ UNCHANGED notHook

\* FunctionCallStream._format_function_start applied to an event
FormatStart(call_info) ==
    /\ formatted' = [given |-> TRUE, call_info |-> call_info,
                     message |-> FormatFunctionStart(call_info)]
    /\ UNCHANGED <<hook_display, hook_queue, hook_out, invocations>>
    /\ UNCHANGED notHook

NextHook ==
    \/ \E fn \in Functions, args \in Arguments, raises \in BOOLEAN :
          Invoke(fn, args, raises)
    \/ ProcessFunctionCallUpdates
    \/ \E call_info \in CallInfos : FormatStart(call_info)

\* ================================================ search resource provisioning
\* scripts/search_setup/search_resource_manager.py.  An answer is the HTTP
\* status of a response, or 0 when the request gets no response
\* (requests raises ConnectionError or Timeout).
NoResponse == 0
RetryStatuses == {429, 500, 502, 503, 504}
Statuses == {NoResponse, 200, 202, 404} \cup RetryStatuses
\* the defaults of _make_request, line 41
max_retries == 3
backoff_factor == 2
\* response.raise_for_status(): HTTPError for a 4xx or 5xx status
RaisesForStatus(st) == st >= 400

RECURSIVE Power(_, _)
Power(b, e) == IF e = 0 THEN 1 ELSE b * Power(b, e - 1)

\* the operations: create_data_source, create_search_index, create_skillset
\* and create_indexer go through _make_request (lines 105, 176, 269, 345)
CreateOps == {"create_data_source", "create_search_index", "create_skillset",
              "create_indexer"}

\* a call: the answers its requests got, the waits between them, and how it
\* ended ("pending" inside the loop of _make_request)
NoCall == [op |-> "none", answers |-> <<>>, waits |-> <<>>, outcome |-> ""]

InitProvFields == lastCall = NoCall

CallPending == lastCall.outcome = "pending"

\* _make_request is entered, line 43: retry_count = 0
MakeRequest(op) ==
    /\ ~CallPending
    /\ lastCall' = [op |-> op, answers |-> <<>>, waits |-> <<>>, outcome |-> "pending"]
    /\ UNCHANGED notProv

\* one pass of the loop of _make_request, lines 45-65, the request answered
\* with st; retry_count is the number of waits so far
Request(st) ==
    /\ CallPending
    /\ LET retry_count == Len(lastCall.waits)
           answered == [lastCall EXCEPT !.answers = Append(@, st)]
       IN  lastCall' =
             IF st = NoResponse
             THEN [answered EXCEPT !.outcome = "ConnectionError"]
             ELSE IF ~RaisesForStatus(st)
             THEN [answered EXCEPT !.outcome = "response"]
             ELSE IF st \in RetryStatuses /\ retry_count < max_retries
             THEN [answered EXCEPT
                     !.waits = Append(@, Power(backoff_factor, retry_count + 1))]
             ELSE [answered EXCEPT !.outcome = "HTTPError"]
    /\ UNCHANGED notProv

\* _resource_exists, lines 67-74: one GET; True for status 200, False for any
\* other status and when the request raises
ResourceExists(st) ==
    /\ ~CallPending
    /\ lastCall' = [op |-> "resource_exists", answers |-> <<st>>, waits |-> <<>>,
                    outcome |-> IF st = 200 THEN "True" ELSE "False"]
    /\ UNCHANGED notProv

\* run_indexer, lines 352-367: one POST; True for status 202, False for any
\* other status; an exception of the request is re-raised
RunIndexer(st) ==
    /\ ~CallPending
    /\ lastCall' = [op |-> "run_indexer", answers |-> <<st>>, waits |-> <<>>,
                    outcome |-> IF st = NoResponse THEN "ConnectionError"
                                ELSE IF st = 202 THEN "True" ELSE "False"]
    /\ UNCHANGED notProv

\* check_indexer_status, lines 369-392: one GET, raise_for_status, the status
\* document; every exception is re-raised
CheckIndexerStatus(st) ==
    /\ ~CallPending
    /\ lastCall' = [op |-> "check_indexer_status", answers |-> <<st>>, waits |-> <<>>,
                    outcome |-> IF st = NoResponse THEN "ConnectionError"
                                ELSE IF RaisesForStatus(st) THEN "HTTPError"
                                ELSE "response"]
    /\ UNCHANGED notProv

NextProvision ==
    \/ \E op \in CreateOps : MakeRequest(op)
    \/ \E st \in Statuses : Request(st)
    \/ \E st \in Statuses : ResourceExists(st)
    \/ \E st \in Statuses : RunIndexer(st)
    \/ \E st \in Statuses : CheckIndexerStatus(st)

\* ------------------------------------------------------------ concurrent turns
\* chat_service.py: two chat() calls on one ChatService object. The plugin
\* manager of a turn is kept in the attribute self._plugin_manager between
\* _create_chat_completion_agent and the finally block of chat(); every await
\* lets the other call run. A manager is named after the request that made it,
\* and a reference to it is <<m>>.
Requests == {"r1", "r2"}
NewManager == [entered |-> 0, plugins |-> FALSE, exits |-> <<>>]

InitTurnsFields ==
    /\ stage = [r \in Requests |-> "idle"]
    /\ declaresMcp = [r \in Requests |-> FALSE]
    /\ svc_plugin_manager = NoManager
    /\ chat_plugin_manager = [r \in Requests |-> NoManager]
    /\ managers = [m \in Requests |-> NewManager]

\* MCPPluginManager.__aenter__ of manager m: its plugins are opened
EnteredBy(ms, m) ==
    [ms EXCEPT ![m].entered = @ + 1, ![m].plugins = TRUE]

\* MCPPluginManager.__aexit__ of manager m, called by request r: the plugins
\* are closed and the list is emptied
ExitedBy(ms, m, r) ==
    [ms EXCEPT ![m].plugins = FALSE, ![m].exits = Append(@, r)]

\* chat() is called for request r; the agent declares MCP tools or not
ChatCalled(r, mcp) ==
    /\ stage[r] = "idle"
    /\ stage' = [stage EXCEPT ![r] = "create"]
    /\ declaresMcp' = [declaresMcp EXCEPT ![r] = mcp]
    /\ UNCHANGED <<svc_plugin_manager, chat_plugin_manager, managers>>
    /\ UNCHANGED notTurns

\* _create_chat_completion_agent from "if mcp_config:" on, self._plugin_manager
\* being None: a manager is made and entered (the await of __aenter__), or
\* the agent is made without plugins and chat() takes self._plugin_manager
CreateAgent(r) ==
    IF declaresMcp[r]
    THEN /\ managers' = EnteredBy(managers, r)
         /\ stage' = [stage EXCEPT ![r] = "entering"]
         /\ UNCHANGED chat_plugin_manager
    ELSE /\ chat_plugin_manager' = [chat_plugin_manager EXCEPT ![r] = NoManager]
         /\ stage' = [stage EXCEPT ![r] = "generate"]
         /\ UNCHANGED managers

\* "Clean up any previous plugin manager": the manager found in
\* self._plugin_manager is exited, whichever turn stored it
CleanUpPrevious(r) ==
    /\ stage[r] = "create"
    /\ svc_plugin_manager # NoManager
    /\ managers' = ExitedBy(managers, svc_plugin_manager[1], r)
    /\ stage' = [stage EXCEPT ![r] = "cleaned"]
    /\ UNCHANGED <<declaresMcp, svc_plugin_manager, chat_plugin_manager>>
    /\ UNCHANGED notTurns

\* the finally of that clean-up, then the creation of the agent
AfterCleanUp(r) ==
    /\ stage[r] = "cleaned"
    /\ svc_plugin_manager' = NoManager
    /\ CreateAgent(r)
    /\ UNCHANGED declaresMcp
    /\ UNCHANGED notTurns

\* no manager is stored: the agent is created at once
NoCleanUp(r) ==
    /\ stage[r] = "create"
    /\ svc_plugin_manager = NoManager
    /\ CreateAgent(r)
    /\ UNCHANGED <<declaresMcp, svc_plugin_manager>>
    /\ UNCHANGED notTurns

\* __aenter__ has returned: "Store for cleanup", and chat() takes the manager
\* from self._plugin_manager
StoreManager(r) ==
    /\ stage[r] = "entering"
    /\ svc_plugin_manager' = <<r>>
    /\ chat_plugin_manager' = [chat_plugin_manager EXCEPT ![r] = <<r>>]
    /\ stage' = [stage EXCEPT ![r] = "generate"]
    /\ UNCHANGED <<declaresMcp, managers>>
    /\ UNCHANGED notTurns

\* agent.invoke_stream and the saving of the thread, completed or failed
Generate(r) ==
    /\ stage[r] = "generate"
    /\ stage' = [stage EXCEPT ![r] = "finally"]
    /\ UNCHANGED <<declaresMcp, svc_plugin_manager, chat_plugin_manager, managers>>
    /\ UNCHANGED notTurns

\* the finally of chat(): the manager chat() holds is exited
FinallyExit(r) ==
    /\ stage[r] = "finally"
    /\ IF chat_plugin_manager[r] # NoManager
       THEN /\ managers' = ExitedBy(managers, chat_plugin_manager[r][1], r)
            /\ stage' = [stage EXCEPT ![r] = "exiting"]
       ELSE /\ stage' = [stage EXCEPT ![r] = "done"]
            /\ UNCHANGED managers
    /\ UNCHANGED <<declaresMcp, svc_plugin_manager, chat_plugin_manager>>
    /\ UNCHANGED notTurns

\* __aexit__ has returned: self._plugin_manager = None
FinallyReset(r) ==
    /\ stage[r] = "exiting"
    /\ svc_plugin_manager' = NoManager
    /\ stage' = [stage EXCEPT ![r] = "done"]
    /\ UNCHANGED <<declaresMcp, chat_plugin_manager, managers>>
    /\ UNCHANGED notTurns

NextTurns ==
    \/ \E r \in Requests, mcp \in BOOLEAN : ChatCalled(r, mcp)
    \/ \E r \in Requests : CleanUpPrevious(r)
    \/ \E r \in Requests : AfterCleanUp(r)
    \/ \E r \in Requests : NoCleanUp(r)
    \/ \E r \in Requests : StoreManager(r)
    \/ \E r \in Requests : Generate(r)
    \/ \E r \in Requests : FinallyExit(r)
    \/ \E r \in Requests : FinallyReset(r)


\* ------------------------------------------------------------ opening the tools
\* MCPPluginManager._initialize_plugins (plugins/mcp.py): the configured
\* servers are connected one after the other, each by "await plugin.connect()".
\* What the server does is the environment's choice: the connection is made,
\* the attempt raises, or the attempt never completes. MCPPlugin.initialize
\* (plugins/mcp_plugin.py) connects its one server in the same way.
ServerKinds == {"connects", "raises", "never", "no_command"}
ServerLists == UNION {[1..n -> ServerKinds] : n \in 1..MaxPlugins}

\* Settings.mcp_timeout_seconds
mcp_timeout_seconds == 30

NotOpening == [servers |-> <<>>, i |-> 0, state |-> "idle", waited |-> 0,
               plugins |-> <<>>, warnings |-> 0]

InitConnFields == opening = NotOpening

Connecting == opening.state = "connecting"

\* __aenter__ calls _initialize_plugins for a configuration of servers
InitializePlugins(servers) ==
    /\ opening.state \in {"idle", "returned"}
    /\ opening' = [NotOpening EXCEPT !.servers = servers, !.i = 1,
                                     !.state = "loop"]
    /\ UNCHANGED notConn

\* one pass of the loop up to its await: a server without a command is
\* skipped with a warning, otherwise plugin.connect() is awaited
NextServer ==
    /\ opening.state = "loop"
    /\ opening.i <= Len(opening.servers)
    /\ IF opening.servers[opening.i] = "no_command"
       THEN opening' = [opening EXCEPT !.warnings = @ + 1, !.i = @ + 1]
       ELSE opening' = [opening EXCEPT !.state = "connecting", !.waited = 0]
    /\ UNCHANGED notConn

\* the await of plugin.connect() ends: the plugin is kept, or the exception
\* is caught and noted as a warning
ConnectEnds ==
    /\ Connecting
    /\ opening.servers[opening.i] \in {"connects", "raises"}
    /\ opening' = [opening EXCEPT
                     !.plugins = IF opening.servers[opening.i] = "connects"
                                 THEN Append(@, opening.i) ELSE @,
                     !.warnings = IF opening.servers[opening.i] = "raises"
                                  THEN @ + 1 ELSE @,
                     !.i = @ + 1,
                     !.state = "loop"]
    /\ UNCHANGED notConn

\* a second passes while plugin.connect() is awaited; nothing in the loop
\* watches the clock
ConnectWaits ==
    /\ Connecting
    /\ opening.waited < MaxWait
    /\ opening' = [opening EXCEPT !.waited = @ + 1]
    /\ UNCHANGED notConn

\* the loop is over: _initialize_plugins returns
InitializeReturns ==
    /\ opening.state = "loop"
    /\ opening.i > Len(opening.servers)
    /\ opening' = [opening EXCEPT !.state = "returned"]
    /\ UNCHANGED notConn

NextConn ==
    \/ \E servers \in ServerLists : InitializePlugins(servers)
    \/ NextServer
    \/ ConnectEnds
    \/ ConnectWaits
    \/ InitializeReturns


\* ------------------------------------------------------------ agents as tools
\* AgentPluginHandler (plugins/agent_plugin.py). An id is a string, here a
\* sequence of characters; the key of an entry is the f-string
\* f"{agent_id}:{tool.id}", or tool.id alone when agent_id is None or empty.
\* Every call of AgentFactory.create_agent makes a new agent object; two
\* agent objects are equal only if they are the same object.
AgentIdStrings == {<<"a">>, <<"b">>, <<"a", ":", "b">>}
ParentIds == AgentIdStrings \cup {None}
MaxAgents == 2
AgentObjects == 1..MaxAgents

\* plugin_key = f"{agent_id}:{tool.id}" if agent_id else tool.id
ToolIdOnly(agent_id, tool_id) == tool_id

PluginKey(agent_id, tool_id) ==
    IF agent_id # None THEN agent_id \o <<":">> \o tool_id ELSE tool_id

PluginKeys == {PluginKey(p, t) : p \in ParentIds, t \in AgentIdStrings}

NoNestedCall == [op |-> "none", agent_id |-> None, tool_id |-> None,
                 agent |-> 0, key |-> None, raised |-> FALSE]

InitNestedFields ==
    /\ agent_plugins = [k \in PluginKeys |-> <<>>]
    /\ agents_made = 0
    /\ made_for = [g \in AgentObjects |-> <<None, None>>]
    /\ lastNested = NoNestedCall

\* the first key whose entry holds the agent, the dict being searched by value
KeysHolding(g) == {k \in PluginKeys : agent_plugins[k] = <<g>>}

\* AgentPluginHandler.initialize(tool, agent_id=...) for a tool of type Agent:
\* the configuration is read and the agent is made (ok), or a step before
\* the entry is stored raises and None is returned
InitializeNested(agent_id, tool_id, ok) ==
    /\ agents_made < MaxAgents
    /\ IF ok
       THEN LET g == agents_made + 1
                key == PluginKey(agent_id, tool_id)
            IN /\ agents_made' = g
               /\ made_for' = [made_for EXCEPT ![g] = <<agent_id, tool_id>>]
               /\ agent_plugins' = [agent_plugins EXCEPT ![key] = <<g>>]
               /\ lastNested' = [op |-> "initialize", agent_id |-> agent_id,
                                 tool_id |-> tool_id, agent |-> g, key |-> key,
                                 raised |-> FALSE]
       ELSE /\ lastNested' = [op |-> "initialize", agent_id |-> agent_id,
                              tool_id |-> tool_id, agent |-> 0, key |-> None,
                              raised |-> TRUE]
            /\ UNCHANGED <<agent_plugins, agents_made, made_for>>
    /\ UNCHANGED notNested

\* AgentPluginHandler.cleanup(agent): the entry holding the agent is looked
\* up by value; agent.cleanup() is awaited if the agent has one, and when it
\* raises the entry stays
CleanupNested(g, raises) ==
    /\ g \in 1..agents_made
    /\ IF KeysHolding(g) # {}
       THEN LET key == CHOOSE k \in KeysHolding(g) : TRUE
            IN /\ agent_plugins' = IF raises THEN agent_plugins
                                   ELSE [agent_plugins EXCEPT ![key] = <<>>]
               /\ lastNested' = [op |-> "cleanup", agent_id |-> made_for[g][1],
                                 tool_id |-> made_for[g][2], agent |-> g,
                                 key |-> key, raised |-> raises]
       ELSE /\ ~raises
            /\ lastNested' = [op |-> "cleanup", agent_id |-> made_for[g][1],
                              tool_id |-> made_for[g][2], agent |-> g,
                              key |-> None, raised |-> FALSE]
            /\ UNCHANGED agent_plugins
    /\ UNCHANGED <<agents_made, made_for>>
    /\ UNCHANGED notNested

NextNested ==
    \/ \E p \in ParentIds, t \in AgentIdStrings, ok \in BOOLEAN :
          InitializeNested(p, t, ok)
    \/ \E g \in AgentObjects, raises \in BOOLEAN : CleanupNested(g, raises)


\* ------------------------------------------------------------ _make_request
\* SearchResourceManager._make_request(method, url, json, max_retries,
\* backoff_factor), lines 41-65, called with arguments of the caller's choice;
\* one pass of the while loop per step.
RetryArgs == 0..MaxRetriesArg
BackoffArgs == 1..MaxBackoffArg

\* wait_time = backoff_factor ** retry_count
LinearWait(b, k) == b * k

WaitTime(b, k) == Power(b, k)

NoRequest == [m |-> 0, b |-> 1, attempts |-> 0, last |-> NoResponse,
              waits |-> <<>>, outcome |-> "none"]

InitRetryFields == request = NoRequest

RequestPending == request.outcome = "pending"

\* the call: retry_count = 0
MakeRequestWith(m, b) ==
    /\ ~RequestPending
    /\ request' = [NoRequest EXCEPT !.m = m, !.b = b, !.outcome = "pending"]
    /\ UNCHANGED notRetry

\* one pass of "while retry_count <= max_retries": the request is sent and
\* answered by status st (NoResponse: requests raises another exception)
RequestPass(st) ==
    /\ RequestPending
    /\ LET retry_count == Len(request.waits)
           sent == [request EXCEPT !.attempts = @ + 1, !.last = st]
       IN  /\ retry_count <= request.m
           /\ request' =
                IF st = NoResponse
                THEN [sent EXCEPT !.outcome = "Exception"]
                ELSE IF ~RaisesForStatus(st)
                THEN [sent EXCEPT !.outcome = "response"]
                ELSE IF st \in RetryStatuses /\ retry_count < request.m
                THEN [sent EXCEPT
                        !.waits = Append(@, WaitTime(request.b, retry_count + 1))]
                ELSE [sent EXCEPT !.outcome = "HTTPError"]
    /\ UNCHANGED notRetry

NextRetry ==
    \/ \E m \in RetryArgs, b \in BackoffArgs : MakeRequestWith(m, b)
    \/ \E st \in Statuses : RequestPass(st)


\* ------------------------------------------------------------ FunctionCallStream
\* One FunctionCallStream object with a producer calling add_function_call
\* and close, and a consumer iterating get_events. An event is a call_info
\* dictionary of type function_start or function_end; its function name is
\* its number, so that events can be told apart in the output.
EventTypes == {"function_start", "function_end"}
EventNumbers == 1..MaxEvents
StreamEvents == [type : EventTypes, function : EventNumbers]

InitFcsFields ==
    /\ fcs_queue = <<>>
    /\ is_active = TRUE
    /\ consumer = "unstarted"
    /\ yielded = <<>>
    /\ accepted = <<>>
    /\ rejected = {}
    /\ closedWith = <<>>

\* _format_function_start and _format_function_end: the markdown block with
\* the summary line of the call
FormatEvent(call_info) ==
    IF call_info.type = "function_start"
    THEN [summary |-> <<"Calling", call_info.function>>]
    ELSE [summary |-> <<"Completed", call_info.function>>]

FormatAll(q) == [i \in 1..Len(q) |-> FormatEvent(q[i])]

\* add_function_call puts the event unless the stream is inactive
PutsAlways(active) == TRUE

Puts(active) == active

\* add_function_call(call_info); the events are numbered as they come
AddFunctionCall(type) ==
    LET n == Len(accepted) + Cardinality(rejected) + 1
        call_info == [type |-> type, function |-> n]
    IN  /\ n <= MaxEvents
        /\ IF Puts(is_active)
           THEN /\ fcs_queue' = Append(fcs_queue, call_info)
                /\ accepted' = Append(accepted, call_info)
                /\ UNCHANGED rejected
           ELSE /\ rejected' = rejected \cup {call_info}
                /\ UNCHANGED <<fcs_queue, accepted>>
        /\ UNCHANGED <<is_active, consumer, yielded, closedWith>>
        /\ UNCHANGED notFcs

\* close()
CloseStream ==
    /\ is_active
    /\ is_active' = FALSE
    /\ closedWith' = <<Len(fcs_queue)>>
    /\ UNCHANGED <<fcs_queue, consumer, yielded, accepted, rejected>>
    /\ UNCHANGED notFcs

\* get_events, a pass of the loop that finds an event: queue.get() returns
\* the oldest event and its formatted text is yielded
YieldEvent ==
    /\ consumer # "finished"
    /\ fcs_queue # <<>>
    /\ yielded' = Append(yielded, FormatEvent(Head(fcs_queue)))
    /\ fcs_queue' = Tail(fcs_queue)
    /\ consumer' = "running"
    /\ UNCHANGED <<is_active, accepted, rejected, closedWith>>
    /\ UNCHANGED notFcs

\* get_events, a pass that finds the queue empty: the loop ends when the
\* stream is inactive (the while condition, or the break after the timeout
\* of wait_for), and goes on otherwise
QueueEmpty ==
    /\ consumer # "finished"
    /\ fcs_queue = <<>>
    /\ consumer' = IF is_active THEN "running" ELSE "finished"
    /\ consumer' # consumer
    /\ UNCHANGED <<fcs_queue, is_active, yielded, accepted, rejected, closedWith>>
    /\ UNCHANGED notFcs

GetEvents == YieldEvent \/ QueueEmpty

NextFcs ==
    \/ \E type \in EventTypes : AddFunctionCall(type)
    \/ CloseStream
    \/ YieldEvent
    \/ QueueEmpty


\* ------------------------------------------------------------ PluginManager
\* PluginManager (plugins/plugin_manager.py): create_plugin, close_plugin and
\* close_all called one after the other on one manager. A plugin is named by
\* the number of its creation; whether its initialize succeeds and whether
\* its close() raises is the plugin's choice.
PluginObjects == 1..MaxPlugins

InitMgrFields ==
    /\ mgr_plugins = {}
    /\ plugins_made = 0
    /\ close_count = [p \in PluginObjects |-> 0]
    /\ was_tracked = {}
    /\ lastPm = [op |-> "none", plugin |-> 0, result |-> "None"]

\* what close_plugin leaves in self.plugins: "del self.plugins[plugin_id]"
\* follows the await of plugin.close() inside the try
AfterClosePlugin(tracked, p, raised) ==
    IF raised THEN tracked ELSE tracked \ {p}

\* create_plugin for a registered type: the plugin is made and initialized;
\* when initialize returns False the plugin is closed and not tracked
CreatePlugin(success) ==
    /\ plugins_made < MaxPlugins
    /\ LET p == plugins_made + 1
       IN  /\ plugins_made' = p
           /\ IF success
              THEN /\ mgr_plugins' = mgr_plugins \cup {p}
                   /\ was_tracked' = was_tracked \cup {p}
                   /\ UNCHANGED close_count
              ELSE /\ close_count' = [close_count EXCEPT ![p] = @ + 1]
                   /\ UNCHANGED <<mgr_plugins, was_tracked>>
           /\ lastPm' = [op |-> "create_plugin", plugin |-> p,
                         result |-> IF success THEN "plugin" ELSE "None"]
    /\ UNCHANGED notMgr

\* close_plugin(plugin_id): False for an id that is not tracked; otherwise
\* plugin.close() is awaited, then the entry deleted; an exception of close()
\* is caught and False returned
ClosePlugin(p, raised) ==
    /\ p \in 1..plugins_made
    /\ close_count[p] < MaxCloses
    /\ IF p \notin mgr_plugins
       THEN /\ ~raised
            /\ lastPm' = [op |-> "close_plugin", plugin |-> p, result |-> "False"]
            /\ lastPm' # lastPm
            /\ UNCHANGED <<mgr_plugins, close_count>>
       ELSE /\ close_count' = [close_count EXCEPT ![p] = @ + 1]
            /\ mgr_plugins' = AfterClosePlugin(mgr_plugins, p, raised)
            /\ lastPm' = [op |-> "close_plugin", plugin |-> p,
                          result |-> IF raised THEN "False" ELSE "True"]
    /\ UNCHANGED <<plugins_made, was_tracked>>
    /\ UNCHANGED notMgr

\* close_all: close() of every tracked plugin is gathered, exceptions
\* returned, and the dictionary cleared
CloseAllPlugins ==
    /\ \A p \in mgr_plugins : close_count[p] < MaxCloses
    /\ close_count' = [p \in PluginObjects |->
                         IF p \in mgr_plugins THEN close_count[p] + 1
                         ELSE close_count[p]]
    /\ mgr_plugins' = {}
    /\ lastPm' = [op |-> "close_all", plugin |-> 0, result |-> "None"]
    /\ UNCHANGED <<plugins_made, was_tracked>>
    /\ UNCHANGED notMgr

NextPm ==
    \/ \E success \in BOOLEAN : CreatePlugin(success)
    \/ \E p \in PluginObjects, raised \in BOOLEAN : ClosePlugin(p, raised)
    \/ CloseAllPlugins


\* ------------------------------------------------------------ shared queues
\* Two turns at the same time, of agents with displayFunctionCallStatus, on
\* the module-level dictionary function_call_queues (kernel_factory.py line
\* 27). The filter of a turn looks the dictionary up by session id each time
\* it records an event; chat() drains the deque of its session id between
\* the responses and at the end, yielding between two events. The function
\* an agent calls is named after its request, so that the markers of the two
\* turns can be told apart.
SessionIds == {"s1", "s2"}

InitSharedFields ==
    /\ shared_queues = [s \in SessionIds |-> <<>>]
    /\ where = [r \in Requests |-> "idle"]
    /\ session_of = [r \in Requests |-> "s1"]
    /\ calls_made = [r \in Requests |-> 0]
    /\ recorded_by = [r \in Requests |-> <<>>]
    /\ delivered = [r \in Requests |-> <<>>]

SharedEvent(r, type) == [type |-> type, function |-> r]

HasQueue(s) == shared_queues[s] # <<>>
DequeOf(s) == shared_queues[s][1]

\* function_call_queues[session_id].append(event), under
\* "if session_id and session_id in function_call_queues"
Recorded(r, type) ==
    IF HasQueue(session_of[r])
    THEN [shared_queues EXCEPT
            ![session_of[r]] = <<Append(DequeOf(session_of[r]), SharedEvent(r, type))>>]
    ELSE shared_queues

\* chat() up to the end of create_kernel: function_call_queues[session_id]
\* = deque()
CreateKernel(r, s) ==
    /\ where[r] = "idle"
    /\ session_of' = [session_of EXCEPT ![r] = s]
    /\ shared_queues' = [shared_queues EXCEPT ![s] = << <<>> >>]
    /\ where' = [where EXCEPT ![r] = "generating"]
    /\ UNCHANGED <<calls_made, recorded_by, delivered>>
    /\ UNCHANGED notShared

\* the filter before "await next(context)": function_start is recorded
RecordStart(r) ==
    /\ where[r] = "generating"
    /\ calls_made[r] < MaxCalls
    /\ calls_made' = [calls_made EXCEPT ![r] = @ + 1]
    /\ recorded_by' = [recorded_by EXCEPT ![r] = Append(@, SharedEvent(r, "function_start"))]
    /\ shared_queues' = Recorded(r, "function_start")
    /\ where' = [where EXCEPT ![r] = "in_function"]
    /\ UNCHANGED <<session_of, delivered>>
    /\ UNCHANGED notShared

\* the filter after the function has run: function_end is recorded
RecordEnd(r) ==
    /\ where[r] = "in_function"
    /\ recorded_by' = [recorded_by EXCEPT ![r] = Append(@, SharedEvent(r, "function_end"))]
    /\ shared_queues' = Recorded(r, "function_end")
    /\ where' = [where EXCEPT ![r] = "generating"]
    /\ UNCHANGED <<session_of, calls_made, delivered>>
    /\ UNCHANGED notShared

\* one evaluation of "while function_call_queues[session_id]:" and what
\* follows it: KeyError when the entry is gone, the next event popped and
\* yielded, or the end of the loop (after, the stage reached then)
LoopPass(r, inLoop, after) ==
    LET s == session_of[r]
    IN  IF ~HasQueue(s)
        THEN /\ where' = [where EXCEPT ![r] = "KeyError"]
             /\ UNCHANGED <<shared_queues, delivered>>
        ELSE IF DequeOf(s) # <<>>
        THEN /\ shared_queues' = [shared_queues EXCEPT ![s] = <<Tail(DequeOf(s))>>]
             /\ delivered' = [delivered EXCEPT ![r] = Append(@, Marker(Head(DequeOf(s))))]
             /\ where' = [where EXCEPT ![r] = inLoop]
        ELSE /\ where' = [where EXCEPT ![r] = after]
             /\ shared_queues' = IF after = "done"
                                 THEN [shared_queues EXCEPT ![s] = <<>>]
                                 ELSE shared_queues
             /\ UNCHANGED delivered

\* a response of invoke_stream arrives: _process_function_call_updates
\* begins, under "if session_id in function_call_queues"
ProcessUpdates(r) ==
    /\ where[r] = "generating"
    /\ IF HasQueue(session_of[r])
       THEN LoopPass(r, "updates", "generating")
       ELSE UNCHANGED <<shared_queues, where, delivered>>
    /\ where' # where \/ shared_queues' # shared_queues
    /\ UNCHANGED <<session_of, calls_made, recorded_by>>
    /\ UNCHANGED notShared

\* _process_function_call_updates resumes after a yield
UpdatesResume(r) ==
    /\ where[r] = "updates"
    /\ LoopPass(r, "updates", "generating")
    /\ UNCHANGED <<session_of, calls_made, recorded_by>>
    /\ UNCHANGED notShared

\* the stream is over: _process_final_function_calls begins; after its loop
\* the entry is deleted
ProcessFinal(r) ==
    /\ where[r] = "generating"
    /\ IF HasQueue(session_of[r])
       THEN LoopPass(r, "final", "done")
       ELSE /\ where' = [where EXCEPT ![r] = "done"]
            /\ UNCHANGED <<shared_queues, delivered>>
    /\ UNCHANGED <<session_of, calls_made, recorded_by>>
    /\ UNCHANGED notShared

\* _process_final_function_calls resumes after a yield
FinalResume(r) ==
    /\ where[r] = "final"
    /\ LoopPass(r, "final", "done")
    /\ UNCHANGED <<session_of, calls_made, recorded_by>>
    /\ UNCHANGED notShared

NextShared ==
    \/ \E r \in Requests, s \in SessionIds : CreateKernel(r, s)
    \/ \E r \in Requests : RecordStart(r)
    \/ \E r \in Requests : RecordEnd(r)
    \/ \E r \in Requests : ProcessUpdates(r)
    \/ \E r \in Requests : UpdatesResume(r)
    \/ \E r \in Requests : ProcessFinal(r)
    \/ \E r \in Requests : FinalResume(r)

InitObjFields ==
    /\ InitTurnsFields
    /\ InitConnFields
    /\ InitNestedFields
    /\ InitRetryFields
    /\ InitFcsFields
    /\ InitMgrFields
    /\ InitSharedFields

\* ------------------------------------------------------------ specifications
\* turns of ChatService; the cache is as constructed
InitSpecChat ==
    /\ InitChat
    /\ InitStoreFields
    /\ InitHookFields
    /\ InitProvFields
    /\ InitRaceFields
    /\ InitObjFields
    /\ InitCacheFields
    /\ enable_cache = TRUE
    /\ cache_ttl = 4

SpecChat == InitSpecChat /\ [][NextChat]_vars

\* turns of agents without MCP servers; the event loop runs a turn that can
\* take a step
SpecChatFair == InitSpecChat /\ [][NextPlain]_vars /\ WF_vars(NextPlain)

\* the application after startup (lifespan of main.py): prefetch_all_specs has
\* cached the specs of some URLs and started the periodic refresh; turns of
\* agents with OpenAPI tools
InitSpecApp ==
    /\ InitChat
    /\ InitStoreFields
    /\ InitHookFields
    /\ InitProvFields
    /\ InitRaceFields
    /\ InitObjFields
    /\ enable_cache = TRUE
    /\ cache_ttl = 4
    /\ \E cached \in SUBSET Urls :
          /\ spec_cache = [u \in Urls |-> IF u \in cached THEN <<1>> ELSE None]
          /\ cache_timestamps = [u \in Urls |-> IF u \in cached THEN <<0>> ELSE None]
          /\ auth_map = [u \in Urls |-> IF u \in cached THEN <<"header">> ELSE None]
          /\ lastGood = spec_cache
    /\ refresh_task = "running"
    /\ slept = 0
    /\ phase = "serving"
    /\ bg_refresh = [x \in Urls \X Auths |-> 0]
    /\ now = 0
    /\ prefetch = [NoPrefetch EXCEPT !.outcome = "done"]
    /\ lastGet = NoGet
    /\ lastSweep = NoSweep
    /\ failedRefresh = [u \in Urls |-> FALSE]

SpecApp == InitSpecApp /\ [][NextTools]_vars

\* the spec cache; no turn runs
InitSpecCache ==
    /\ InitChat
    /\ InitStoreFields
    /\ InitHookFields
    /\ InitProvFields
    /\ InitRaceFields
    /\ InitObjFields
    /\ backend = "memory"
    /\ InitCacheFields
    /\ enable_cache \in BOOLEAN
    /\ cache_ttl \in TtlValues

SpecCache == InitSpecCache /\ [][NextCache]_vars

\* the cache with short TTLs, under a clock that runs and a refresh task that
\* wakes when its sleep is over
SweepTtlValues == {2, 3}
InitSpecSweep ==
    /\ InitChat
    /\ InitStoreFields
    /\ InitHookFields
    /\ InitProvFields
    /\ InitRaceFields
    /\ InitObjFields
    /\ backend = "memory"
    /\ InitCacheFields
    /\ enable_cache = TRUE
    /\ cache_ttl \in SweepTtlValues

SpecSweep ==
    /\ InitSpecSweep
    /\ [][NextCache]_vars
    /\ WF_vars(Tick)
    /\ WF_vars(\E os \in [SweepDue -> BulkOutcomes] : SweepCycle(os))

\* the thread storage of each backend under calls of its contract, and turns
\* opened on what it holds; no turn of the chat runs
InitSpecStorage ==
    /\ InitChat
    /\ backend = "memory"
    /\ InitCacheFields
    /\ enable_cache = TRUE
    /\ cache_ttl = 4
    /\ ts_class \in Backends
    /\ ts_instance = "none"
    /\ use_serialization \in (IF ts_class = "memory" THEN BOOLEAN ELSE {TRUE})
    /\ ts_data = [s \in Ids |-> Absent]
    /\ lastOp = NoOp
    /\ opened = NoTurn
    /\ lastWrite = [s \in Ids |-> NoWrite]
    /\ InitHookFields
    /\ InitProvFields
    /\ InitRaceFields
    /\ InitObjFields

SpecStorage == InitSpecStorage /\ [][NextStorage]_vars

\* tool invocations on a kernel with or without the filter, the markers made
\* of the recorded events, and the formatting of function_start events
InitSpecHook ==
    /\ InitChat
    /\ backend = "memory"
    /\ InitCacheFields
    /\ enable_cache = TRUE
    /\ cache_ttl = 4
    /\ InitStoreFields
    /\ hook_display \in BOOLEAN
    /\ hook_queue = <<>>
    /\ hook_out = <<>>
    /\ formatted = NoFormat
    /\ invocations = <<>>
    /\ InitProvFields
    /\ InitRaceFields
    /\ InitObjFields

SpecHook == InitSpecHook /\ [][NextHook]_vars

\* two callers of get_spec on an empty cache after startup, and the clock;
\* no refresh runs meanwhile
InitSpecRace ==
    /\ InitChat
    /\ InitStoreFields
    /\ InitHookFields
    /\ InitProvFields
    /\ InitRaceFields
    /\ InitObjFields
    /\ backend = "memory"
    /\ enable_cache = TRUE
    /\ cache_ttl \in TtlValues
    /\ spec_cache = [u \in Urls |-> None]
    /\ cache_timestamps = [u \in Urls |-> None]
    /\ auth_map = [u \in Urls |-> None]
    /\ refresh_task = "none"
    /\ slept = 0
    /\ phase = "serving"
    /\ bg_refresh = [x \in Urls \X Auths |-> 0]
    /\ now = 0
    /\ prefetch = [NoPrefetch EXCEPT !.outcome = "logged"]
    /\ lastGet = NoGet
    /\ lastSweep = NoSweep
    /\ lastGood = [u \in Urls |-> None]
    /\ failedRefresh = [u \in Urls |-> FALSE]

SpecRace == InitSpecRace /\ [][NextRace]_vars

\* calls of SearchResourceManager against a service that answers each attempt
\* with some status or not at all
InitSpecProvision ==
    /\ InitChat
    /\ backend = "memory"
    /\ InitCacheFields
    /\ enable_cache = TRUE
    /\ cache_ttl = 4
    /\ InitStoreFields
    /\ InitHookFields
    /\ InitProvFields
    /\ InitRaceFields
    /\ InitObjFields

SpecProvision == InitSpecProvision /\ [][NextProvision]_vars

\* two turns on one ChatService object
InitSpecTurns ==
    /\ InitChat
    /\ InitStoreFields
    /\ InitHookFields
    /\ InitProvFields
    /\ InitRaceFields
    /\ InitObjFields
    /\ InitCacheFields
    /\ enable_cache = TRUE
    /\ cache_ttl = 4

SpecTurns == InitSpecTurns /\ [][NextTurns]_vars

\* two turns on the shared function_call_queues
InitSpecShared ==
    /\ InitChat
    /\ InitStoreFields
    /\ InitHookFields
    /\ InitProvFields
    /\ InitRaceFields
    /\ InitObjFields
    /\ InitCacheFields
    /\ enable_cache = TRUE
    /\ cache_ttl = 4

SpecShared == InitSpecShared /\ [][NextShared]_vars

\* the calls of one PluginManager
InitSpecPm ==
    /\ InitChat
    /\ InitStoreFields
    /\ InitHookFields
    /\ InitProvFields
    /\ InitRaceFields
    /\ InitObjFields
    /\ InitCacheFields
    /\ enable_cache = TRUE
    /\ cache_ttl = 4

SpecPm == InitSpecPm /\ [][NextPm]_vars

\* one FunctionCallStream; the consumer of get_events keeps iterating
InitSpecFcs ==
    /\ InitChat
    /\ InitStoreFields
    /\ InitHookFields
    /\ InitProvFields
    /\ InitRaceFields
    /\ InitObjFields
    /\ InitCacheFields
    /\ enable_cache = TRUE
    /\ cache_ttl = 4

SpecFcs == InitSpecFcs /\ [][NextFcs]_vars /\ WF_vars(GetEvents)

\* calls of _make_request with every choice of max_retries and backoff_factor
InitSpecRetry ==
    /\ InitChat
    /\ InitStoreFields
    /\ InitHookFields
    /\ InitProvFields
    /\ InitRaceFields
    /\ InitObjFields
    /\ InitCacheFields
    /\ enable_cache = TRUE
    /\ cache_ttl = 4

SpecRetry == InitSpecRetry /\ [][NextRetry]_vars

\* the agents one AgentPluginHandler makes and cleans up
InitSpecNested ==
    /\ InitChat
    /\ InitStoreFields
    /\ InitHookFields
    /\ InitProvFields
    /\ InitRaceFields
    /\ InitObjFields
    /\ InitCacheFields
    /\ enable_cache = TRUE
    /\ cache_ttl = 4

SpecNested == InitSpecNested /\ [][NextNested]_vars

\* the opening of the MCP servers of one manager
InitSpecConn ==
    /\ InitChat
    /\ InitStoreFields
    /\ InitHookFields
    /\ InitProvFields
    /\ InitRaceFields
    /\ InitObjFields
    /\ InitCacheFields
    /\ enable_cache = TRUE
    /\ cache_ttl = 4

SpecConn == InitSpecConn /\ [][NextConn]_vars

\* ==================================================================== claims
IsContent(c) == c.k = "content"
IsMarker(c) == c.k = "marker"
IsError(c) == c.k = "error"
ContentOf(o) == SelectSeq(o, IsContent)
MarkersOf(o) == SelectSeq(o, IsMarker)
ErrorsOf(o) == SelectSeq(o, IsError)
IsPrefix(a, b) == Len(a) <= Len(b) /\ \A i \in 1..Len(a) : a[i] = b[i]
\* the content chunks the generation stream has emitted so far, in order
EmittedContent == [i \in 1..emitted |-> ContentChunk(i)]
\* the markers of the events the instrumentation has recorded so far, in order
RecordedMarkers == [i \in 1..Len(recorded) |-> Marker(recorded[i])]
TurnClosed == pc = "done"

\* C1: when the cleanup of a turn has completed, close() has been invoked
\* exactly once on every plugin instance created in the turn, whatever the
\* outcome of the turn, and on no plugin more than once.
C1_ReleasedExactlyOnce ==
    /\ \A p \in PluginIds : closeCalls[p] <= 1
    /\ TurnClosed => \A p \in created : closeCalls[p] = 1

\* a turn that created both plugins, one of which raised in close(), and that
\* then failed while saving, has completed its cleanup
C1_Witness_FailedTurnReleased ==
    /\ TurnClosed
    /\ outcome = "save_error"
    /\ Cardinality(created) = MaxPlugins

\* a later MCP server failed to connect and the agent constructor raised: the
\* plugin created before it is closed on the failure path
C1_Witness_LaterToolFails ==
    /\ TurnClosed
    /\ outcome = "agent_error"
    /\ created = {<<turnNo, 1>>}

\* C2 (as stated): when a turn is over, the state stored for its session is
\* the state saved by the last successfully completed turn.
C2_StoredIsLastSuccessful ==
    TurnClosed => storage[sid] = committed[sid]

\* C3: the output of a finished turn is well terminated: a turn that succeeded
\* yielded no error chunk; a turn that failed, at whatever step, yielded
\* exactly one error chunk, as its last chunk; no exception left chat().
C3_WellFormedTerminator ==
    TurnClosed =>
        /\ outcome # "escaped"
        /\ outcome = "ok" => ErrorsOf(out) = <<>>
        /\ outcome # "ok" =>
              /\ out # <<>>
              /\ out[Len(out)] = ErrorChunk
              /\ Len(ErrorsOf(out)) = 1

\* a turn failed while persisting, after content had been yielded
C3_Witness_PersistenceError ==
    /\ TurnClosed
    /\ outcome = "save_error"
    /\ emitted > 0
    /\ out[Len(out)] = ErrorChunk

\* C4: when the generation stream raises, the chunks it emitted before are
\* all in the output, in order, followed by exactly one error chunk and
\* nothing else; after "a" alone the output is "a", error chunk.
C4_ErrorAfterContent ==
    (TurnClosed /\ outcome = "gen_error") =>
        /\ ContentOf(out) = EmittedContent
        /\ Len(ErrorsOf(out)) = 1
        /\ out[Len(out)] = ErrorChunk
        /\ (emitted = 1 /\ recorded = <<>>) => out = <<ContentChunk(1), ErrorChunk>>

\* the stream raised after emitting "a"
C4_Witness_RaiseAfterA ==
    /\ TurnClosed
    /\ outcome = "gen_error"
    /\ emitted = 1
    /\ out = <<ContentChunk(1), ErrorChunk>>

\* C5: a stream that emits "a", "b" and completes, with no function-call
\* event, gives exactly the output "a", "b", with or without instrumentation;
\* and once the stream has completed the turn closes.
C5_OutputAB ==
    (/\ pc \in {"save", "finally", "done"}
     /\ outcome \in {"none", "ok"}
     /\ emitted = 2
     /\ recorded = <<>>) => out = <<ContentChunk(1), ContentChunk(2)>>

C5_PrimaryOnlyTerminates ==
    /\ []C5_OutputAB
    /\ (pc = "save" /\ recorded = <<>>) ~> TurnClosed

\* "a", "b" were yielded and the turn closed, with instrumentation enabled
C5_Witness_Enabled ==
    /\ TurnClosed
    /\ outcome = "ok"
    /\ display
    /\ recorded = <<>>
    /\ out = <<ContentChunk(1), ContentChunk(2)>>

\* C6 (as stated): when the output of a turn closes, every chunk either
\* producer emitted has been yielded exactly once: the content chunks of the
\* stream and one marker per recorded function-call event.
C6_AllYieldedBeforeClose ==
    TurnClosed =>
        /\ ContentOf(out) = EmittedContent
        /\ MarkersOf(out) = RecordedMarkers

\* C7: in the output, the content chunks are in the order the stream emitted
\* them and the markers are in the order the events were recorded.
C7_ProducerOrder ==
    /\ ContentOf(out) = EmittedContent
    /\ IsPrefix(MarkersOf(out), RecordedMarkers)

\* a start and an end event were drained together between two content chunks
C7_Witness_Interleaved ==
    /\ TurnClosed
    /\ Len(MarkersOf(out)) = 2
    /\ emitted = 2
    /\ out[2].k = "marker"
    /\ out[3].k = "marker"

\* C8: get_spec never raises: it returns a spec or None; a fetch that fails on
\* a miss returns None and leaves the URL uncached.
C8_GetNeverRaises ==
    lastGet.url # "" =>
        /\ ~lastGet.res.raised
        /\ lastGet.res.val = None \/ lastGet.res.val \in {<<v>> : v \in 0..MaxVersion}
        /\ (~lastGet.hit /\ lastGet.res.val = None) => spec_cache[lastGet.url] = None

\* a get on an uncached URL whose fetch failed returned None
C8_Witness_FailedMiss ==
    /\ lastGet.url # ""
    /\ enable_cache
    /\ ~lastGet.hit
    /\ lastGet.res = Returned(None)

\* a get with the cache disabled whose fetch failed returned None
C8_Witness_Disabled ==
    /\ lastGet.url # ""
    /\ ~enable_cache
    /\ lastGet.res = Returned(None)

\* C9: a get on a cached URL returns the value cached when it was called and
\* fetches nothing; it creates exactly one refresh task, still pending when
\* it returns, if the entry is older than 0.75*ttl, and none otherwise.
C9_StaleWhileRevalidate ==
    lastGet.hit =>
        /\ lastGet.res = Returned(lastGet.cached)
        /\ spec_cache[lastGet.url] = lastGet.cached
        /\ lastGet.scheduled = (IF 4 * lastGet.age > 3 * cache_ttl THEN 1 ELSE 0)
        /\ lastGet.scheduled = 1 => bg_refresh[<<lastGet.url, lastGet.auth>>] >= 1

\* the example, scaled: ttl 5, the entry is read at age 4 (0.8*ttl)
C9_Witness_ReadAtFourFifths ==
    /\ lastGet.hit
    /\ cache_ttl = 5
    /\ lastGet.age = 4
    /\ lastGet.scheduled = 1
    /\ lastGet.res = Returned(lastGet.cached)

\* an entry read at exactly 0.75*ttl: no refresh
C9_Witness_ReadAtThreeQuarters ==
    /\ lastGet.hit
    /\ cache_ttl = 4
    /\ lastGet.age = 3
    /\ lastGet.scheduled = 0

\* C10: after a refresh of a cached URL has failed, the entry is still the
\* last spec fetched successfully, and a get for it returns that spec, not
\* None, and does not raise.
C10_FailedRefreshKeepsEntry ==
    \A u \in Urls : failedRefresh[u] =>
        /\ spec_cache[u] # None
        /\ spec_cache[u] = lastGood[u]
        /\ lastGet.url = u => lastGet.res = Returned(lastGood[u])

\* a get after a failed refresh returned the old value, at least ttl old
C10_Witness_GetAfterFailedRefresh ==
    /\ lastGet.hit
    /\ failedRefresh[lastGet.url]
    /\ lastGet.age >= cache_ttl
    /\ lastGet.res = Returned(lastGood[lastGet.url])

\* the URLs a map of the cache has an entry for
KeysOf(map) == {u \in Urls : map[u] # None}

C11_SameKeys ==
    /\ KeysOf(spec_cache) = KeysOf(cache_timestamps)
    /\ KeysOf(spec_cache) = KeysOf(auth_map)

\* a step that changes the spec of a URL, or its timestamp, writes the spec
\* together with the time of that write, or removes both
C11_WrittenTogether ==
    \A u \in Urls :
        (spec_cache'[u] # spec_cache[u] \/ cache_timestamps'[u] # cache_timestamps[u])
            => \/ spec_cache'[u] # None /\ cache_timestamps'[u] = <<now>>
               \/ spec_cache'[u] = None /\ cache_timestamps'[u] = None

\* C11: between any two steps of gets, background refreshes, sweeps and
\* cleanup, the spec map, the timestamp map and the auth map have entries for
\* the same URLs, and a spec is only ever replaced together with its
\* timestamp: the timestamp of an entry is the time its spec was written.
C11_ReplacedWholesale == []C11_SameKeys /\ [][C11_WrittenTogether]_vars

\* a refresh has replaced the spec of an entry, later than its first fetch,
\* while a background refresh of a URL is still pending
C11_Witness_Replaced ==
    /\ \E u \in Urls : /\ spec_cache[u] = <<MaxVersion>>
                       /\ cache_timestamps[u] = <<now>>
                       /\ now > 1
    /\ TotalPending > 0
    /\ phase = "serving"

\* C12 (as stated): when the kernel of a turn has been created, before the
\* thread is loaded and generation starts, no spec was fetched over the
\* network for a tool whose spec URL is in the cache.
C12_CachedSpecNotFetched ==
    pc = "load" => \A u \in kernel_fetches : spec_cache[u] = None

\* ---- thread storage
\* what a load is to return for a saved thread: an equal value, or for a
\* service thread a wrapper that names the class and carries the same id
ObservablyEqual(res, th) ==
    IF th.cls = "AzureAIAgentThread"
    THEN res = SerializableThread("AzureAIAgentThread", th.id)
    ELSE res = th

\* C13 (as stated): in every backend and for every session id, a load that
\* reaches the store returns the thread of the last save under that id (for a
\* service thread with an id: its wrapper), whatever was saved under other
\* ids in between.
C13_LoadReturnsSaved ==
    (/\ lastOp.op = "load"
     /\ lastOp.io
     /\ lastWrite[lastOp.sid].kind = "save"
     /\ Saveable(lastWrite[lastOp.sid].th))
        => ObservablyEqual(lastOp.res, lastWrite[lastOp.sid].th)

\* C14 (as stated): each backend can be constructed with save, load and
\* delete, and a load that reaches the store after a delete under the same id
\* returns None, whether or not a thread had been saved under the id.
C14_DeleteThenLoadNull ==
    /\ ts_instance # "TypeError"
    /\ (lastOp.op = "load" /\ lastOp.io /\ lastWrite[lastOp.sid].kind = "delete")
          => IsNone(lastOp.res)

\* C15 (as stated): after any sequence of saves under one session id, a load
\* that reaches the store returns the state of the last save that returned,
\* and nothing of an earlier one.
C15_LoadReturnsLastSave ==
    (lastOp.op = "load" /\ lastOp.io /\ lastWrite[lastOp.sid].kind = "save")
        => ObservablyEqual(lastOp.res, lastWrite[lastOp.sid].th)

\* the object an entry of the store stands for
EntryObject(e) == IF e.form = "b64" THEN Unpickle(e.data) ELSE e.obj
SavedServiceThread(s) ==
    /\ lastWrite[s].kind = "save"
    /\ lastWrite[s].th.cls = "AzureAIAgentThread"
    /\ Saveable(lastWrite[s].th)

\* C16: in every backend the store never holds a service thread object: once
\* a service thread with an id was saved under a session, the store holds for
\* that session the wrapper {"AzureAIAgentThread", id} built from the thread's
\* id, and no load returns the thread object: what a load returns for such a
\* session, when it returns anything, is that wrapper.
C16_OnlyHandleStored ==
    /\ \A s \in Ids :
          /\ EntryObject(ts_data[s]).cls # "AzureAIAgentThread"
          /\ SavedServiceThread(s)
                => EntryObject(ts_data[s])
                     = SerializableThread("AzureAIAgentThread", lastWrite[s].th.id)
    /\ lastOp.op = "load"
          => /\ lastOp.res.cls # "AzureAIAgentThread"
             /\ (SavedServiceThread(lastOp.sid) /\ ~IsNone(lastOp.res))
                   => lastOp.res = SerializableThread("AzureAIAgentThread",
                                                      lastWrite[lastOp.sid].th.id)

\* a service thread X was saved to Cosmos DB and the load returned its wrapper
C16_Witness_HandleLoaded ==
    /\ ts_class = "cosmosdb"
    /\ lastOp.op = "load"
    /\ SavedServiceThread(lastOp.sid)
    /\ lastOp.res = SerializableThread("AzureAIAgentThread", "X")

\* the memory storage without serialization holds the wrapper as an object
C16_Witness_HandleHeld ==
    \E s \in Ids :
        /\ ts_class = "memory"
        /\ ~use_serialization
        /\ SavedServiceThread(s)
        /\ ts_data[s] = Held(SerializableThread("AzureAIAgentThread", "Y"))

\* C17 (as stated): a turn of an AzureAIAgent opened on a session whose load
\* returned a wrapper runs, without raising, on a service thread that carries
\* the wrapper's id.
C17_ReconnectsToExternalId ==
    (opened.agentType = "AzureAIAgent"
        /\ IsInstance(opened.existing, "SerializableThread"))
        => /\ ~opened.raised
           /\ IsInstance(opened.thread, "AzureAIAgentThread")
           /\ opened.thread.id = opened.existing.id

\* ---- the function invocation filter
IsStart(e) == e.type = "function_start"
IsEnd(e) == e.type = "function_end"

\* C18 (as stated): under instrumentation, once a tool invocation is over,
\* whether it returned or raised, a function_end event has been recorded for
\* its function_start event: while no invocation is in progress the turn has
\* recorded as many function_end events as function_start events.
C18_EndRecordedAfterEveryCall ==
    (display /\ inCall = Null)
        => Len(SelectSeq(recorded, IsEnd)) = Len(SelectSeq(recorded, IsStart))

\* C19: in a turn of an agent that does not ask for function-call status, no
\* event is recorded or queued and no function-call marker is in the output,
\* whatever tools are invoked.
C19_NoEventsWhenDisabled ==
    (~display /\ pc # "idle")
        => /\ recorded = <<>>
           /\ QueueOf(sid).q = <<>>
           /\ MarkersOf(out) = <<>>

\* a turn without instrumentation has invoked a tool, which returned, and has
\* completed with content in its output
C19_Witness_ToolInvoked ==
    /\ ~display
    /\ calls > 0
    /\ inCall = Null
    /\ emitted > 0
    /\ TurnClosed
    /\ outcome = "ok"

\* the placeholder shown for the value of a sensitive argument
Redacted == "[REDACTED]"
SensitiveNames == {"api_key"}
Redact(args) == [n \in DOMAIN args |-> IF n \in SensitiveNames THEN Redacted ELSE args[n]]
StartEvents == SelectSeq(hook_queue, IsStart)

\* C20 (as stated): the function_start event recorded for an invocation with
\* an argument named api_key records the arguments with the placeholder in
\* place of the raw value, and the markup of a function_start event shows the
\* arguments of the event with the placeholder in place of the raw value.
C20_SensitiveArgumentRedacted ==
    /\ (hook_display /\ hook_out = <<>>)
          => \A i \in 1..Len(StartEvents) :
                StartEvents[i].arguments = <<Redact(invocations[i].arguments)>>
    /\ (formatted.given /\ formatted.call_info.arguments # NoArguments)
          => formatted.message.details
                = JsonDumps(Redact(formatted.call_info.arguments[1]))

\* ---- tool errors
\* C21 (as stated): a turn gets past the creation of its kernel, towards
\* generation, only if no OpenAPI tool of the agent was found without a usable
\* spec (not declared, not fetchable, or not registrable); otherwise the turn
\* ends with an error message.
C21_UnusableSpecEndsTurn ==
    pc = "load" => kernel_unusable = {}

\* ---- resolution of the declared MCP servers
\* the servers of the turn whose initialization did not fail
Resolvable == (1..mcpTools) \ init_failed[1]

Tracked(m) == SeqToSet(pm_plugins[m])
ClosedIn(m) ==
    {i \in 1..MaxPlugins : closeCalls'[<<m, i>>] = closeCalls[<<m, i>>] + 1}

\* C23: an __aexit__ of a manager invokes close() once on every instance the
\* manager tracks, whichever of them raise, and leaves the manager tracking
\* nothing; the exception of a close() does not leave __aexit__: the cleanup in
\* the finally block of the turn completes the turn with its outcome unchanged.
C23_ExitStep ==
    /\ \A m \in Managers :
          /\ (Tracked(m) # {} /\ pm_plugins'[m] # pm_plugins[m])
                => ClosedIn(m) = Tracked(m) /\ pm_plugins'[m] = <<>>
          /\ ClosedIn(m) # {}
                => /\ pm_plugins'[m] = <<>>
                   /\ \/ ClosedIn(m) = Tracked(m)
                      \/ Tracked(m) = {}
                            /\ ClosedIn(m) = {i \in 1..MaxPlugins : <<m, i>> \in created'}
    /\ pc = "finally" => pc' = "done" /\ outcome' = outcome
C23_ExitClosesAll == [][C23_ExitStep]_vars

\* the turn is over after an exit in which a close() raised: both instances
\* of the turn have had their close() invoked and the manager tracks nothing
C23_Witness_CleanupRaised ==
    /\ TurnClosed
    /\ close_raised
    /\ outcome = "ok"
    /\ Cardinality(created) = MaxPlugins
    /\ \A p \in created : closeCalls[p] = 1
    /\ pm_plugins[turnNo] = <<>>

\* ---- persistence errors
\* C24: a failure of thread_storage.save at the end of a turn reaches the
\* handler of the turn: the turn ends with exactly one error chunk, after the
\* content it had yielded, and close() has been invoked once on every plugin
\* of the turn, none of which stays tracked.  (The memory backend has no
\* failing save; the failing backend is Cosmos DB.)
C24_PersistenceErrorReported ==
    /\ outcome = "save_error" => pc \in {"except", "finally", "done"}
    /\ (TurnClosed /\ outcome = "save_error")
          => /\ out[Len(out)] = ErrorChunk
             /\ Len(ErrorsOf(out)) = 1
             /\ ContentOf(out) = EmittedContent
             /\ \A p \in created : closeCalls[p] = 1
             /\ \A m \in Managers : pm_plugins[m] = <<>>
             /\ self_plugin_manager = NoManager

\* a turn on Cosmos DB with one live plugin yielded content, failed to save,
\* and is over
C24_Witness_SaveFailedOnCosmos ==
    /\ TurnClosed
    /\ outcome = "save_error"
    /\ backend = "cosmosdb"
    /\ created = {<<turnNo, 1>>}
    /\ emitted > 0

\* ---- provisioning calls
\* C25 (as stated): every finished call of a provisioning endpoint (create or
\* update, existence check, run indexer, indexer status) made the attempts
\* bounded retry calls for: it repeated after each answer 429, 500, 502, 503
\* or 504, at most max_retries times, sleeping backoff_factor^k before retry
\* k, and made no further attempt after any other answer.
C25_BoundedRetryOnEveryCall ==
    (lastCall.op # "none" /\ ~CallPending)
        => LET n == Len(lastCall.answers)
           IN  /\ n <= max_retries + 1
               /\ \A k \in 1..(n - 1) : lastCall.answers[k] \in RetryStatuses
               /\ lastCall.answers[n] \in RetryStatuses => n = max_retries + 1
               /\ lastCall.waits = [k \in 1..(n - 1) |-> Power(backoff_factor, k)]

\* ---- startup prefetch
Declared(u) == \E i \in 1..Len(prefetch.declared) : prefetch.declared[i] = u

\* C26: prefetch_all_specs fetches each distinct declared spec URL once:
\* never twice, and once each when its fetches are over; the refresh task
\* runs only when no fetch of the prefetch is outstanding; the call ends
\* returning (cache disabled, done, or failure logged), never raising, and
\* the application then serves; a later get for a URL that is not cached
\* fetches it and, when that fetch stores a spec, returns it.
C26_PrefetchOncePerUrl ==
    /\ \A u \in Urls : prefetch.fetched[u] <= (IF Declared(u) THEN 1 ELSE 0)
    /\ (prefetch.outcome = "fetching" /\ Gathered(prefetch))
          => \A u \in Urls : prefetch.fetched[u] = (IF Declared(u) THEN 1 ELSE 0)
    /\ refresh_task = "running" => (phase # "startup" /\ Gathered(prefetch))
    /\ phase = "prefetching" => refresh_task = "none"
    /\ prefetch.outcome \in {"", "fetching", "disabled", "done", "logged"}
    /\ prefetch.outcome \in {"disabled", "done", "logged"}
          <=> phase \in {"serving", "stopped"}
    /\ (lastGet.url # "" /\ enable_cache /\ lastGet.cached = None)
          => /\ ~lastGet.hit
             /\ spec_cache[lastGet.url] # None
                   => lastGet.res = Returned(spec_cache[lastGet.url])

\* two tools declare u1; its one fetch and the fetch of u2 are over
C26_Witness_DuplicateFetchedOnce ==
    /\ phase = "prefetching"
    /\ prefetch.declared = <<"u1", "u2", "u1">>
    /\ prefetch.fetched = [u \in Urls |-> 1]
    /\ Gathered(prefetch)

\* the prefetch left u1 uncached, the application serves, and a get for u1
\* fetched it
C26_Witness_FetchedOnDemand ==
    /\ prefetch.outcome = "done"
    /\ refresh_task = "running"
    /\ lastGet.url = "u1"
    /\ ~lastGet.hit
    /\ lastGet.res.val # None
    /\ spec_cache["u1"] = lastGet.res.val

\* listing the agents failed: nothing is cached, the application serves
C26_Witness_ListingFailed ==
    /\ prefetch.outcome = "logged"
    /\ phase = "serving"
    /\ lastGet.url = "u1"
    /\ lastGet.res.val # None

\* ---- the periodic refresh
Age(u) == now - cache_timestamps[u][1]
OlderThanHalfTtl(u) == cache_timestamps[u] # None /\ 2 * Age(u) > cache_ttl

\* a cycle of the sweep refreshes the entries older than half the TTL and no
\* others, writes every refresh that succeeded whatever the others did, and
\* leaves the task running
C27_CycleStep ==
    lastSweep'.ran =>
        /\ lastSweep'.attempted = {u \in Urls : OlderThanHalfTtl(u)}
        /\ \A u \in lastSweep'.attempted \ lastSweep'.failed :
              cache_timestamps'[u] # cache_timestamps[u]
                  => cache_timestamps'[u] = <<now>>
        /\ \A u \in Urls \ lastSweep'.attempted :
              /\ cache_timestamps'[u] = cache_timestamps[u]
              /\ spec_cache'[u] = spec_cache[u]
        /\ refresh_task' = "running"

\* the clock of the model leaves the refresh task the time to wake once more
TimeToWake == now + RefreshInterval <= MaxTime + slept

\* C27 (as stated): each cycle of the sweep refreshes exactly the entries
\* older than 0.5*ttl, a failed refresh stops neither the others nor later
\* cycles, and so an entry older than 0.5*ttl that is not read gets a refresh
\* attempt from the sweep (or stops being that old, or is cleared).
C27_SweepRefreshesUnread ==
    /\ [][C27_CycleStep]_vars
    /\ \A u \in Urls :
          (phase = "serving" /\ OlderThanHalfTtl(u) /\ TimeToWake)
              ~> (u \in lastSweep.attempted \/ ~OlderThanHalfTtl(u))

\* ---- shutdown
NoEntries == [u \in Urls |-> None]

C28_CleanupStep ==
    (phase = "serving" /\ phase' = "stopped")
        => /\ refresh_task' = "none"
           /\ spec_cache' = NoEntries
           /\ cache_timestamps' = NoEntries
           /\ auth_map' = NoEntries

\* C28: the step in which cleanup returns leaves no refresh task and the
\* three maps empty, and after it the task is gone for good: no cycle of the
\* sweep runs any more.
C28_CleanupStopsAndClears ==
    /\ [][C28_CleanupStep]_vars
    /\ [](phase = "stopped" => (refresh_task = "none" /\ ~lastSweep.ran))

\* cleanup has run on a cache whose refresh task was started and in which a
\* get had found an entry stale (its refresh is still pending)
C28_Witness_CleanedWithEntries ==
    /\ phase = "stopped"
    /\ prefetch.outcome = "done"
    /\ TotalPending > 0
    /\ refresh_task = "none"
    /\ spec_cache = NoEntries
    /\ cache_timestamps = NoEntries
    /\ auth_map = NoEntries

\* ---- get on an uncached URL
IsGet(g) == g.url # ""
IsMiss(g) == IsGet(g) /\ ~g.hit

C29_AfterMiss ==
    IsMiss(lastGet) =>
        IF enable_cache
        THEN /\ lastGet.res.val # None
                  => /\ spec_cache[lastGet.url] = lastGet.res.val
                     /\ cache_timestamps[lastGet.url] = <<now>>
             /\ lastGet.res.val = None
                  => /\ spec_cache[lastGet.url] = None
                     /\ cache_timestamps[lastGet.url] = None
                     /\ auth_map[lastGet.url] = None
        ELSE /\ spec_cache = [u \in Urls |-> None]
             /\ cache_timestamps = [u \in Urls |-> None]
             /\ auth_map = [u \in Urls |-> None]

C29_NextGetStep ==
    (enable_cache /\ IsMiss(lastGet) /\ lastGet.res.val # None
       /\ IsGet(lastGet') /\ lastGet'.url = lastGet.url)
        => (lastGet'.hit /\ lastGet'.res = lastGet.res)

\* C29 (as stated): a get that missed and returned a spec has stored it with
\* the current time, and the get that follows it for the same URL is a hit
\* returning the same spec; a get that missed and returned null has created
\* no entry; with the cache disabled nothing is ever stored.
C29_MissFetchesAndStores ==
    /\ []C29_AfterMiss
    /\ [][C29_NextGetStep]_vars

\* ---- two gets of one uncached URL
OwnFetch(c) == FetchOpenapiSpec(cold[c].o)
WroteEntry(c) == Caches(OwnFetch(c))
EntryOf(c, u) ==
    /\ spec_cache[u] = OwnFetch(c).val
    /\ cache_timestamps[u] = <<cold[c].at>>
    /\ auth_map[u] = <<cold[c].auth>>
NoEntry(u) == spec_cache[u] = None /\ cache_timestamps[u] = None /\ auth_map[u] = None

\* C30: two get_spec calls that found the same URL uncached each make their
\* own fetch and each return what their own fetch gave (None if it failed);
\* when both have returned, the URL has the one complete entry written by
\* the call that ended last (by the other if the last wrote nothing, none if
\* neither wrote).
C30_ColdGetsLastWriteWins ==
    /\ \A c \in Ended :
          cold[c].res = (IF OwnFetch(c).raised THEN Returned(None) ELSE OwnFetch(c))
    /\ \A first, last \in Callers :
          (/\ Ended = Callers
           /\ cold[first].seq = 1
           /\ cold[last].seq = 2
           /\ cold[first].url = cold[last].url)
            => LET u == cold[last].url
               IN  IF WroteEntry(last) THEN EntryOf(last, u)
                   ELSE IF WroteEntry(first) THEN EntryOf(first, u)
                   ELSE NoEntry(u)

\* both calls fetched u1 while it was uncached, c1 got version 1 at time 1,
\* c2 version 2 at time 2; the entry is that of c2
C30_Witness_BothFetched ==
    /\ Ended = Callers
    /\ cold["c1"].url = "u1" /\ cold["c2"].url = "u1"
    /\ cold["c1"].seq = 1 /\ cold["c1"].at = 1 /\ cold["c1"].res = Returned(<<1>>)
    /\ cold["c2"].seq = 2 /\ cold["c2"].at = 2 /\ cold["c2"].res = Returned(<<2>>)
    /\ spec_cache["u1"] = <<2>>
    /\ cache_timestamps["u1"] = <<2>>

\* ---- the function-call side channel at the end of a turn
\* C31 (as stated): when a turn has ended, whether generation completed or
\* failed, no queue is registered for its session id any more.
C31_QueueRemovedAtTurnEnd ==
    TurnClosed => \A s \in Sessions : function_call_queues[s] = NoQueue


\* ---- the plugin manager of a turn
Exits(m) == managers[m].exits

\* C32 (as stated): a plugin manager is entered once and exited once, by the
\* turn that entered it and by no other, also when two turns are handled at
\* the same time by one ChatService object.
C32_ManagerBelongsToItsTurn ==
    \A m \in Requests :
        /\ managers[m].entered <= 1
        /\ Len(Exits(m)) <= 1
        /\ \A i \in 1..Len(Exits(m)) : Exits(m)[i] = m
        /\ (stage[m] = "done" /\ managers[m].entered = 1) => Exits(m) = <<m>>

\* ---- the time a tool connection may take
\* C33 (as stated): tool connection setup is bounded by the configured
\* timeout: no connection attempt is still awaited when more than
\* mcp_timeout_seconds have passed since it began.
C33_ConnectBoundedByTimeout ==
    Connecting => opening.waited <= mcp_timeout_seconds

\* ---- the agents tracked by AgentPluginHandler
TrackedAgents == {g \in AgentObjects : KeysHolding(g) # {}}

\* two tracked agents made for the same tool id under two different parents
SameToolTwoParents(g, h) ==
    /\ g \in TrackedAgents /\ h \in TrackedAgents
    /\ made_for[g][2] = made_for[h][2]
    /\ made_for[g][1] # None /\ made_for[h][1] # None
    /\ made_for[g][1] # made_for[h][1]

KeysHoldingAfter(g) == {k \in PluginKeys : agent_plugins'[k] = <<g>>}

\* initialize for a parent agent leaves tracked, under a key of its own, every
\* agent made for the same tool id under another parent agent
C34_InitializeStep ==
    (lastNested'.op = "initialize" /\ ~lastNested'.raised
       /\ lastNested'.agent_id # None /\ agents_made' = agents_made + 1)
    => \A h \in TrackedAgents :
          (made_for[h][2] = lastNested'.tool_id /\ made_for[h][1] # None
             /\ made_for[h][1] # lastNested'.agent_id)
          => /\ KeysHoldingAfter(h) = KeysHolding(h)
             /\ lastNested'.key \notin KeysHolding(h)

\* cleanup of an agent removes the entry of that agent, unless its own
\* cleanup() raised, and changes no other entry
C34_CleanupStep ==
    (lastNested'.op = "cleanup" /\ lastNested' # lastNested)
    => LET g == lastNested'.agent
       IN /\ \A k \in PluginKeys \ KeysHolding(g) :
                agent_plugins'[k] = agent_plugins[k]
          /\ ~lastNested'.raised => KeysHoldingAfter(g) = {}

\* C34: nested agents are tracked under the compound key (parent agent id,
\* tool id): the same tool id resolved for two different parent agents gives
\* two tracked entries, and cleaning up one removes only its own entry.
C34_CompoundKeyTracking ==
    /\ [](\A g \in TrackedAgents :
             KeysHolding(g) = {PluginKey(made_for[g][1], made_for[g][2])})
    /\ [][C34_InitializeStep /\ C34_CleanupStep]_vars

\* one of two agents made for the same tool under two parents has been
\* cleaned up, and the other is still tracked
C34_Witness_OtherStillTracked ==
    /\ lastNested.op = "cleanup" /\ lastNested.key # None /\ ~lastNested.raised
    /\ lastNested.agent_id # None
    /\ \E h \in TrackedAgents :
          /\ made_for[h][2] = lastNested.tool_id
          /\ made_for[h][1] # None
          /\ made_for[h][1] # lastNested.agent_id

\* ---- the retries of _make_request
\* C35: _make_request with max_retries = m and backoff_factor = b makes at
\* most m + 1 attempts; it sleeps b^k before retry k; it ends with the first
\* response that is not an error, raises the HTTP error once m retries on a
\* retryable status are used up (or at once on another error status), and
\* raises any other exception on the attempt it occurs, without retry.
C35_MakeRequestBounded ==
    LET n == request.attempts
        retries == Len(request.waits)
    IN  /\ n <= request.m + 1
        /\ retries <= request.m
        /\ request.waits = [k \in 1..retries |-> Power(request.b, k)]
        /\ RequestPending => (n = retries /\ n <= request.m
                                /\ (n > 0 => request.last \in RetryStatuses))
        /\ request.outcome \in {"response", "HTTPError", "Exception"}
              => n = retries + 1
        /\ request.outcome = "response"
              <=> (n > 0 /\ request.last # NoResponse
                     /\ ~RaisesForStatus(request.last))
        /\ request.outcome = "Exception" <=> (n > 0 /\ request.last = NoResponse)
        /\ request.outcome = "HTTPError"
              <=> (n > 0 /\ RaisesForStatus(request.last)
                     /\ (request.last \in RetryStatuses => retries = request.m)
                     /\ ~RequestPending)

\* the default arguments: three retries after sleeps of 2, 4 and 8 seconds,
\* and the error of the fourth attempt is raised
C35_Witness_DefaultsExhausted ==
    /\ request.m = max_retries /\ request.b = backoff_factor
    /\ request.attempts = 4
    /\ request.waits = <<2, 4, 8>>
    /\ request.outcome = "HTTPError"

\* ---- draining a closed FunctionCallStream
\* what was yielded and what is still queued are, together and in order, the
\* events put before the close; a dropped event is never yielded
C36_FifoAndDropped ==
    /\ yielded \o FormatAll(fcs_queue) = FormatAll(accepted)
    /\ \A e \in rejected :
          /\ closedWith # <<>>
          /\ \A i \in 1..Len(yielded) : yielded[i] # FormatEvent(e)
    /\ consumer = "finished"
          => (~is_active /\ fcs_queue = <<>> /\ yielded = FormatAll(accepted))

\* C36: after close(), get_events yields every event queued before the
\* close, in FIFO order, and then terminates; an event added after the close
\* is dropped and never yielded.
C36_DrainsThenTerminates ==
    /\ []C36_FifoAndDropped
    /\ (~is_active) ~> (consumer = "finished")

\* the stream was closed with events still queued, an event came after the
\* close, and get_events has ended
C36_Witness_ClosedWithBacklog ==
    /\ consumer = "finished"
    /\ closedWith # <<>> /\ closedWith[1] >= 2
    /\ rejected # {}

\* ---- closing the plugins of a PluginManager
\* C37 (as stated): over any sequence of create_plugin, close_plugin and
\* close_all, close() is invoked at most once on each plugin that was
\* tracked, and after close_all no plugin is tracked, also when the close()
\* called by close_plugin raised.
C37_ClosedAtMostOnce ==
    /\ \A p \in was_tracked : close_count[p] <= 1
    /\ lastPm.op = "close_all" => mgr_plugins = {}

\* ---- the function-call events of two turns
MarkersOfEvents(q) == [i \in 1..Len(q) |-> Marker(q[i])]

\* C38 (as stated): with two turns running at the same time, on different
\* session ids or on the same one, a turn's output holds only markers of its
\* own events, a turn that has ended has delivered every event its filter
\* produced, and no turn fails on the queue the other has removed.
C38_EventsReachOwnTurnOnly ==
    \A r \in Requests :
        /\ \A i \in 1..Len(delivered[r]) : delivered[r][i].b = r
        /\ where[r] = "done" => delivered[r] = MarkersOfEvents(recorded_by[r])
        /\ where[r] # "KeyError"

\* ---- the cache after cleanup
\* C39 (as stated): once cleanup has returned, and until the next get or
\* prefetch, the cache stays empty and no sweep task runs; a background
\* refresh scheduled before the cleanup does not repopulate the cache.
C39_StaysEmptyAfterCleanup ==
    phase = "stopped"
        => /\ spec_cache = NoEntries
           /\ cache_timestamps = NoEntries
           /\ refresh_task = "none"

====

